---- MODULE Spec2Model ----
(***************************************************************************)
(* Expression evaluation engine of rust-calculator (src/src/calculator.rs):*)
(* validate_input, safe_parse_number, tokenize, shunting_yard,             *)
(* evaluate_postfix and evaluate.                                          *)
(*                                                                         *)
(* Text is a sequence of one-character strings.  An f64 is modelled as a   *)
(* sign, an exact fraction and a decimal exponent, s * (n/d) * 10^x, with  *)
(* the special values inf and NaN, overflow above f64::MAX and underflow   *)
(* below the smallest subnormal.  Rounding to 53 bits is not modelled,     *)
(* except that an addend more than Precision decimal digits below the      *)
(* other one is absorbed.                                                  *)
(***************************************************************************)
EXTENDS Integers, Sequences, FiniteSets, TLC

VARIABLES src, expr, stage, result, expression, display, new_input, last, keys

vars ==
    <<src, expr, stage, result, expression, display, new_input, last, keys>>

\* the calculator of the user interface, the message it processed last and
\* the messages still to come
fields == <<expression, display, new_input, last, keys>>

------------------------------------------------------------------------------
(* Small helpers on integers and sequences                                  *)

Abs(i) == IF i < 0 THEN -i ELSE i

Min(a, b) == IF a <= b THEN a ELSE b

RECURSIVE GCD(_, _)
GCD(a, b) == IF b = 0 THEN a ELSE GCD(b, a % b)

RECURSIVE Pow10(_)
Pow10(k) == IF k = 0 THEN 1 ELSE 10 * Pow10(k - 1)

RECURSIVE NumDigits(_)
NumDigits(i) == IF i < 10 THEN 1 ELSE 1 + NumDigits(i \div 10)

RECURSIVE Flatten(_)
Flatten(ss) == IF ss = <<>> THEN <<>> ELSE Head(ss) \o Flatten(Tail(ss))

Last(s) == s[Len(s)]

Front(s) == SubSeq(s, 1, Len(s) - 1)

------------------------------------------------------------------------------
(* f64 values                                                               *)

\* Decimal digits of difference in magnitude beyond which f64 addition
\* returns the larger addend unchanged (an f64 carries 15 to 17 digits; the
\* model aligns at most this many).
Precision == 6

Fin(s, n, d, x) == [k |-> "fin", s |-> s, n |-> n, d |-> d, x |-> x]

Inf(s) == [k |-> "inf", s |-> s, n |-> 0, d |-> 1, x |-> 0]

NaN == [k |-> "nan", s |-> 1, n |-> 0, d |-> 1, x |-> 0]

Zero(s) == Fin(s, 0, 1, 0)

\* n * 10^a > c, for n >= 1, c >= 1 and a >= 0, without forming large products
ScaledGt(n, a, c) ==
    LET dn == NumDigits(n) + a
        dc == NumDigits(c)
    IN  IF dn > dc THEN TRUE
        ELSE IF dn < dc THEN FALSE
        ELSE n * Pow10(a) > c

\* n * 10^a < c, for n >= 1, c >= 1 and a >= 0
ScaledLt(n, a, c) ==
    LET dn == NumDigits(n) + a
        dc == NumDigits(c)
    IN  IF dn < dc THEN TRUE
        ELSE IF dn > dc THEN FALSE
        ELSE n * Pow10(a) < c

\* |v| > m * 10^e for a finite non-zero v
MagGt(v, m, e) ==
    IF v.x - e >= 0 THEN ScaledGt(v.n, v.x - e, m * v.d)
    ELSE ScaledLt(m * v.d, e - v.x, v.n)

\* |v| < m * 10^e for a finite non-zero v
MagLt(v, m, e) ==
    IF v.x - e >= 0 THEN ScaledLt(v.n, v.x - e, m * v.d)
    ELSE ScaledGt(m * v.d, e - v.x, v.n)

RECURSIVE StripDen(_, _, _)
\* moves the factors 2 and 5 of the denominator into the decimal exponent
StripDen(n, d, x) ==
    IF d % 2 = 0 THEN StripDen(n * 5, d \div 2, x - 1)
    ELSE IF d % 5 = 0 THEN StripDen(n * 2, d \div 5, x - 1)
    ELSE <<n, d, x>>

RECURSIVE StripNum(_, _, _)
\* moves the factors 10 of the numerator into the decimal exponent
StripNum(n, d, x) ==
    IF n % 10 = 0 THEN StripNum(n \div 10, d, x + 1) ELSE <<n, d, x>>

\* The f64 nearest to s * (n/d) * 10^x: the canonical form of the fraction,
\* inf above f64::MAX (about 1.8e308), zero below the smallest subnormal
\* (about 4.9e-324, values under half of it round to zero).
Norm(s, n, d, x) ==
    IF n = 0 THEN Zero(s)
    ELSE LET g == GCD(n, d)
             a == StripDen(n \div g, d \div g, x)
             b == StripNum(a[1], a[2], a[3])
             v == Fin(s, b[1], b[2], b[3])
         IN  IF MagGt(v, 18, 307) THEN Inf(s)
             ELSE IF MagLt(v, 25, -325) THEN Zero(s)
             ELSE v

IsFinite(v) == v.k = "fin"

IsZero(v) == v.k = "fin" /\ v.n = 0

\* f64 negation (the unary - of Rust)
F64Neg(v) == IF v.k = "nan" THEN NaN ELSE [v EXCEPT !.s = -v.s]

\* a * b
F64Mul(a, b) ==
    IF a.k = "nan" \/ b.k = "nan" THEN NaN
    ELSE IF a.k = "inf" \/ b.k = "inf"
         THEN IF IsZero(a) \/ IsZero(b) THEN NaN ELSE Inf(a.s * b.s)
    ELSE Norm(a.s * b.s, a.n * b.n, a.d * b.d, a.x + b.x)

\* a / b
F64Div(a, b) ==
    IF a.k = "nan" \/ b.k = "nan" THEN NaN
    ELSE IF a.k = "inf" THEN (IF b.k = "inf" THEN NaN ELSE Inf(a.s * b.s))
    ELSE IF b.k = "inf" THEN Zero(a.s * b.s)
    ELSE IF IsZero(b) THEN (IF IsZero(a) THEN NaN ELSE Inf(a.s * b.s))
    ELSE Norm(a.s * b.s, a.n * b.d, a.d * b.n, a.x - b.x)

\* a + b
F64Add(a, b) ==
    IF a.k = "nan" \/ b.k = "nan" THEN NaN
    ELSE IF a.k = "inf"
         THEN (IF b.k = "inf" /\ b.s # a.s THEN NaN ELSE a)
    ELSE IF b.k = "inf" THEN b
    ELSE IF IsZero(a) /\ IsZero(b)
         THEN Zero(IF a.s = -1 /\ b.s = -1 THEN -1 ELSE 1)
    ELSE IF IsZero(a) THEN b
    ELSE IF IsZero(b) THEN a
    ELSE LET ma == NumDigits(a.n) - NumDigits(a.d) + a.x
             mb == NumDigits(b.n) - NumDigits(b.d) + b.x
         IN  IF ma - mb > Precision + 1 THEN a
             ELSE IF mb - ma > Precision + 1 THEN b
             ELSE LET xm == Min(a.x, b.x)
                      na == a.s * a.n * Pow10(a.x - xm) * b.d
                      nb == b.s * b.n * Pow10(b.x - xm) * a.d
                      sum == na + nb
                  IN  Norm(IF sum < 0 THEN -1 ELSE 1, Abs(sum), a.d * b.d, xm)

\* a - b
F64Sub(a, b) == F64Add(a, F64Neg(b))

\* The literal 1e100 of calculator.rs
Bound == Fin(1, 1, 1, 100)

\* v.abs() > 1e100 for a finite v
AbsGtBound(v) == ~IsZero(v) /\ MagGt(v, Bound.n, Bound.x)

\* OutOfRange with >= in place of >
OutOfRangeInclusive(v) == ~IsFinite(v) \/ (~IsZero(v) /\ ~MagLt(v, 1, 100))

\* !num.is_finite() || num.abs() > 1e100
OutOfRange(v) == ~IsFinite(v) \/ AbsGtBound(v)

------------------------------------------------------------------------------
(* Characters                                                               *)

Digits == {"0", "1", "2", "3", "4", "5", "6", "7", "8", "9"}

DigitVal(c) ==
    CASE c = "0" -> 0 [] c = "1" -> 1 [] c = "2" -> 2 [] c = "3" -> 3
      [] c = "4" -> 4 [] c = "5" -> 5 [] c = "6" -> 6 [] c = "7" -> 7
      [] c = "8" -> 8 [] c = "9" -> 9

RECURSIVE DigitsToInt(_)
DigitsToInt(s) ==
    IF s = <<>> THEN 0 ELSE 10 * DigitsToInt(Front(s)) + DigitVal(Last(s))

AllDigits(s) == \A i \in 1..Len(s) : s[i] \in Digits

\* index of the first element of s that is in set, 0 when there is none
FirstIn(s, set, i) ==
    LET found == {j \in i..Len(s) : s[j] \in set}
    IN  IF found = {} THEN 0
        ELSE CHOOSE j \in found : \A k \in found : j <= k

\* ASCII lower case of the letters f64::from_str compares without case
Lower(c) ==
    CASE c = "I" -> "i" [] c = "N" -> "n" [] c = "F" -> "f" [] c = "T" -> "t"
      [] c = "Y" -> "y" [] c = "A" -> "a" [] OTHER -> c

LowerAll(s) == [i \in 1..Len(s) |-> Lower(s[i])]

------------------------------------------------------------------------------
(* str::parse::<f64>                                                        *)

NoParse == [k |-> "none", s |-> 1, n |-> 0, d |-> 1, x |-> 0]

\* Exp ::= 'e' Sign? Digit+ ; t is the text after the 'e'
ExpOk(t) ==
    LET u == IF t # <<>> /\ t[1] \in {"+", "-"} THEN Tail(t) ELSE t
    IN  u # <<>> /\ AllDigits(u)

ExpVal(t) ==
    IF t[1] \in {"+", "-"}
    THEN (IF t[1] = "-" THEN -1 ELSE 1) * DigitsToInt(Tail(t))
    ELSE DigitsToInt(t)

\* Number ::= ( Digit+ | Digit+ '.' Digit* | Digit* '.' Digit+ ) Exp?
ParseNumber(sign, t) ==
    LET ePos == FirstIn(t, {"e", "E"}, 1)
        mant == IF ePos = 0 THEN t ELSE SubSeq(t, 1, ePos - 1)
        ex   == IF ePos = 0 THEN <<>> ELSE SubSeq(t, ePos + 1, Len(t))
        dot  == FirstIn(mant, {"."}, 1)
        ip   == IF dot = 0 THEN mant ELSE SubSeq(mant, 1, dot - 1)
        fp   == IF dot = 0 THEN <<>> ELSE SubSeq(mant, dot + 1, Len(mant))
    IN  IF /\ AllDigits(ip) /\ AllDigits(fp)
           /\ Len(ip) + Len(fp) > 0
           /\ (ePos = 0 \/ ExpOk(ex))
        THEN Norm(sign, DigitsToInt(ip \o fp), 1,
                  (IF ePos = 0 THEN 0 ELSE ExpVal(ex)) - Len(fp))
        ELSE NoParse

\* Float ::= Sign? ( 'inf' | 'infinity' | 'nan' | Number ); NoParse on a
\* text that is no float
ParseF64(text) ==
    LET signed == text # <<>> /\ text[1] \in {"+", "-"}
        sign   == IF signed /\ text[1] = "-" THEN -1 ELSE 1
        t      == IF signed THEN Tail(text) ELSE text
        low    == LowerAll(t)
    IN  IF low = <<"i", "n", "f">> \/ low = <<"i", "n", "f", "i", "n", "i", "t", "y">>
        THEN Inf(sign)
        ELSE IF low = <<"n", "a", "n">> THEN NaN
        ELSE ParseNumber(sign, t)

------------------------------------------------------------------------------
(* Results and errors                                                       *)

\* Ok(v)
Ok(v) == [ok |-> TRUE, val |-> v, msg |-> "", text |-> <<>>]

\* Err(message), the message of a CalculatorError carrying a text
Err(msg, text) == [ok |-> FALSE, val |-> NaN, msg |-> msg, text |-> text]

\* Err(message) carrying the number result.to_string() is made from
ErrVal(msg, v) == [ok |-> FALSE, val |-> v, msg |-> msg, text |-> <<>>]

NoResult == [ok |-> FALSE, val |-> NaN, msg |-> "none", text |-> <<>>]

\* Calculator::safe_parse_number
safe_parse_number(s) ==
    LET num == ParseF64(s)
    IN  IF num.k = "none" THEN Err("Invalid number", s)
        ELSE IF OutOfRange(num) THEN Err("Number out of range", s)
        ELSE Ok(num)

------------------------------------------------------------------------------
(* Calculator::validate_input                                               *)

MAX_INPUT_LENGTH == 1000

\* char::len_utf8 of the characters the model uses
LenUtf8(c) == IF c = "÷" THEN 2 ELSE 1

\* str::len, the length in bytes: one byte for each character and one more
\* for each character of two bytes
ByteLen(s) == Len(s) + Cardinality({i \in 1..Len(s) : LenUtf8(s[i]) = 2})

AllowedChars ==
    Digits \cup {"+", "-", "x", "X", "*", "/", "÷", ".", "e", "E", "(", ")", " "}

\* a validator that reports the first disallowed character only
validate_input_first(input) ==
    IF ByteLen(input) > MAX_INPUT_LENGTH THEN Err("Input too long", <<>>)
    ELSE LET invalid_chars == SelectSeq(input, LAMBDA c : c \notin AllowedChars)
         IN  IF invalid_chars # <<>>
             THEN Err("Invalid characters", <<Head(invalid_chars)>>)
             ELSE Ok(Zero(1))

validate_input(input) ==
    IF ByteLen(input) > MAX_INPUT_LENGTH THEN Err("Input too long", <<>>)
    ELSE LET invalid_chars == SelectSeq(input, LAMBDA c : c \notin AllowedChars)
         IN  IF invalid_chars # <<>> THEN Err("Invalid characters", invalid_chars)
             ELSE Ok(Zero(1))

------------------------------------------------------------------------------
(* Tokens                                                                   *)

Tok(t) == [t |-> t, v |-> NaN]

Number(v) == [t |-> "Number", v |-> v]

BinaryOps == {"Plus", "Minus", "Multiply", "Divide"}

\* operator_info with the unary minus ranked below the binary operators
operator_info_low_unary(tok) ==
    IF tok.t \in {"Plus", "Minus"} THEN <<1, TRUE>>
    ELSE IF tok.t \in {"Multiply", "Divide"} THEN <<2, TRUE>>
    ELSE IF tok.t = "UnaryMinus" THEN <<0, FALSE>>
    ELSE <<>>

\* Token::operator_info: <<precedence, left_associative>>, <<>> for None
operator_info(tok) ==
    IF tok.t \in {"Plus", "Minus"} THEN <<1, TRUE>>
    ELSE IF tok.t \in {"Multiply", "Divide"} THEN <<2, TRUE>>
    ELSE IF tok.t = "UnaryMinus" THEN <<3, FALSE>>
    ELSE <<>>

is_left_paren(tok) == tok.t = "LeftParen"

------------------------------------------------------------------------------
(* Calculator::tokenize                                                     *)

\* a Result whose Ok value is a sequence of tokens
OkToks(toks) == [ok |-> TRUE, val |-> toks, msg |-> "", text |-> <<>>]

ErrToks(msg, text) == [ok |-> FALSE, val |-> <<>>, msg |-> msg, text |-> text]

RECURSIVE ScanNumber(_, _, _, _, _)
\* the inner loop of the '0'..='9' | '.' arm: the text of the literal that
\* starts at i and the position after it, or the error of the loop
ScanNumber(s, i, num_str, has_dot, has_e) ==
    IF i > Len(s) THEN [ok |-> TRUE, pos |-> i, text |-> num_str]
    ELSE LET c == s[i]
         IN  IF c \in Digits
             THEN ScanNumber(s, i + 1, Append(num_str, c), has_dot, has_e)
             ELSE IF c = "."
             THEN IF has_dot
                  THEN [ok |-> FALSE, pos |-> i,
                        text |-> Append(num_str, ".")]
                  ELSE ScanNumber(s, i + 1, Append(num_str, c), TRUE, has_e)
             ELSE IF c \in {"e", "E"}
             THEN IF has_e
                  THEN [ok |-> FALSE, pos |-> i,
                        text |-> Append(num_str, "e")]
                  ELSE IF i + 1 <= Len(s) /\ s[i + 1] \in {"+", "-"}
                       THEN ScanNumber(s, i + 2,
                                       num_str \o <<c, s[i + 1]>>, has_dot, TRUE)
                       ELSE ScanNumber(s, i + 1, Append(num_str, c), has_dot, TRUE)
             ELSE [ok |-> TRUE, pos |-> i, text |-> num_str]

\* the token a binary operator character stands for
BinaryToken(ch) ==
    IF ch = "+" THEN "Plus"
    ELSE IF ch \in {"x", "X", "*"} THEN "Multiply"
    ELSE "Divide"

\* the message of the expect_operand error of a binary operator character
UnexpectedMsg(ch) ==
    IF ch = "+" THEN "Unexpected '+' operator"
    ELSE IF ch \in {"x", "X", "*"} THEN "Unexpected multiplication operator"
    ELSE "Unexpected division operator"

\* IsUnaryMinus that does not look at the previous token
IsUnaryMinusAnywhere(expect_operand, prev_was_binary_op) == expect_operand

\* '-' while an operand is expected and the previous token is no binary
\* operator is the unary minus
IsUnaryMinus(expect_operand, prev_was_binary_op) ==
    expect_operand /\ ~prev_was_binary_op

RECURSIVE TokenizeFrom(_, _, _, _, _)
\* the while loop of tokenize from character i on
TokenizeFrom(s, i, toks, expect_operand, prev_was_binary_op) ==
    IF i > Len(s) THEN OkToks(toks)
    ELSE LET ch == s[i]
         IN  IF ch \in Digits \cup {"."}
             THEN LET scan == ScanNumber(s, i, <<>>, FALSE, FALSE)
                      num  == safe_parse_number(scan.text)
                  IN  IF ~scan.ok
                      THEN ErrToks(IF s[scan.pos] = "."
                                   THEN "Invalid number format: multiple decimal points"
                                   ELSE "Invalid number format: multiple 'e'",
                                   scan.text)
                      ELSE IF ~num.ok THEN ErrToks(num.msg, num.text)
                      ELSE TokenizeFrom(s, scan.pos, Append(toks, Number(num.val)),
                                        FALSE, FALSE)
             ELSE IF ch = "-"
             THEN IF IsUnaryMinus(expect_operand, prev_was_binary_op)
                  THEN TokenizeFrom(s, i + 1, Append(toks, Tok("UnaryMinus")),
                                    TRUE, FALSE)
                  ELSE IF expect_operand /\ prev_was_binary_op
                  THEN ErrToks("Consecutive operators", <<>>)
                  ELSE IF prev_was_binary_op
                  THEN ErrToks("Consecutive operators", <<>>)
                  ELSE TokenizeFrom(s, i + 1, Append(toks, Tok("Minus")),
                                    TRUE, TRUE)
             ELSE IF ch \in {"+", "x", "X", "*", "/", "÷"}
             THEN IF expect_operand THEN ErrToks(UnexpectedMsg(ch), <<>>)
                  ELSE IF prev_was_binary_op
                  THEN ErrToks("Consecutive operators", <<>>)
                  ELSE TokenizeFrom(s, i + 1, Append(toks, Tok(BinaryToken(ch))),
                                    TRUE, TRUE)
             ELSE IF ch = "("
             THEN TokenizeFrom(s, i + 1, Append(toks, Tok("LeftParen")),
                               TRUE, FALSE)
             ELSE IF ch = ")"
             THEN IF expect_operand
                  THEN ErrToks("Unexpected ')' - missing operand", <<>>)
                  ELSE TokenizeFrom(s, i + 1, Append(toks, Tok("RightParen")),
                                    FALSE, FALSE)
             ELSE IF ch = " "
             THEN TokenizeFrom(s, i + 1, toks, expect_operand, prev_was_binary_op)
             ELSE ErrToks("Invalid character", <<ch>>)

tokenize(input) == TokenizeFrom(input, 1, <<>>, TRUE, FALSE)

------------------------------------------------------------------------------
(* Calculator::shunting_yard                                                *)

\* ShouldPop without the tie-break of equal precedence
ShouldPopNoTie(top_info, current_info) == top_info[1] > current_info[1]

\* the test of the while loop of a binary operator: the operator on top of
\* the stack is emitted before the current one is pushed
ShouldPop(top_info, current_info) ==
    \/ top_info[1] > current_info[1]
    \/ (top_info[1] = current_info[1] /\ current_info[2])

RECURSIVE PopOperators(_, _, _)
\* the while loop of the binary operator arm: <<output, operator_stack>>
PopOperators(token, output, operator_stack) ==
    IF operator_stack = <<>> THEN <<output, operator_stack>>
    ELSE LET top == Last(operator_stack)
         IN  IF is_left_paren(top) THEN <<output, operator_stack>>
             ELSE IF operator_info(token) # <<>> /\ operator_info(top) # <<>>
                     /\ ShouldPop(operator_info(top), operator_info(token))
             THEN PopOperators(token, Append(output, top), Front(operator_stack))
             ELSE <<output, operator_stack>>

RECURSIVE PopToLeftParenLazy(_, _)
\* PopToLeftParen that discards the '(' and leaves the operators above it on
\* the stack
PopToLeftParenLazy(output, operator_stack) ==
    IF operator_stack = <<>> THEN <<FALSE, output, operator_stack>>
    ELSE LET op == Last(operator_stack)
         IN  IF is_left_paren(op) THEN <<TRUE, output, Front(operator_stack)>>
             ELSE LET r == PopToLeftParenLazy(output, Front(operator_stack))
                  IN  <<r[1], r[2], Append(r[3], op)>>

RECURSIVE PopToLeftParen(_, _)
\* the while loop of the RightParen arm: <<found_left_paren, output, stack>>
PopToLeftParen(output, operator_stack) ==
    IF operator_stack = <<>> THEN <<FALSE, output, operator_stack>>
    ELSE LET op == Last(operator_stack)
         IN  IF is_left_paren(op) THEN <<TRUE, output, Front(operator_stack)>>
             ELSE PopToLeftParen(Append(output, op), Front(operator_stack))

RECURSIVE PopRemainingAll(_, _)
\* PopRemaining that emits a left parenthesis like an operator
PopRemainingAll(output, operator_stack) ==
    IF operator_stack = <<>> THEN OkToks(output)
    ELSE PopRemainingAll(Append(output, Last(operator_stack)),
                         Front(operator_stack))

RECURSIVE PopRemaining(_, _)
\* the loop after the tokens: pops the remaining operators
PopRemaining(output, operator_stack) ==
    IF operator_stack = <<>> THEN OkToks(output)
    ELSE LET op == Last(operator_stack)
         IN  IF is_left_paren(op) THEN ErrToks("Mismatched parentheses", <<>>)
             ELSE PopRemaining(Append(output, op), Front(operator_stack))

RECURSIVE ShuntFrom(_, _, _, _)
\* the for loop of shunting_yard from token i on
ShuntFrom(toks, i, output, operator_stack) ==
    IF i > Len(toks) THEN PopRemaining(output, operator_stack)
    ELSE LET token == toks[i]
         IN  IF token.t = "Number"
             THEN ShuntFrom(toks, i + 1, Append(output, token), operator_stack)
             ELSE IF token.t = "UnaryMinus"
             THEN ShuntFrom(toks, i + 1, output, Append(operator_stack, token))
             ELSE IF token.t \in BinaryOps
             THEN LET p == PopOperators(token, output, operator_stack)
                  IN  ShuntFrom(toks, i + 1, p[1], Append(p[2], token))
             ELSE IF token.t = "LeftParen"
             THEN ShuntFrom(toks, i + 1, output, Append(operator_stack, token))
             ELSE LET p == PopToLeftParen(output, operator_stack)
                  IN  IF ~p[1] THEN ErrToks("Mismatched parentheses", <<>>)
                      ELSE ShuntFrom(toks, i + 1, p[2], p[3])

shunting_yard(toks) == ShuntFrom(toks, 1, <<>>, <<>>)

------------------------------------------------------------------------------
(* Calculator::evaluate_postfix                                             *)

\* a op b for the binary operator token op
ApplyBinary(op, a, b) ==
    IF op = "Plus" THEN F64Add(a, b)
    ELSE IF op = "Minus" THEN F64Sub(a, b)
    ELSE IF op = "Multiply" THEN F64Mul(a, b)
    ELSE F64Div(a, b)

\* DivisionByZero testing the left operand
DivisionByZeroLeft(op, a, b) == op = "Divide" /\ IsZero(a)

\* the Divide arm's test b == 0.0
DivisionByZero(op, a, b) == op = "Divide" /\ IsZero(b)

\* FinalCheck without the bound
FinalCheckNone(v) == Ok(v)

\* the check made on the value the evaluation ends with
FinalCheck(v) ==
    IF OutOfRange(v) THEN ErrVal("Number out of range", v) ELSE Ok(v)

RECURSIVE EvalFrom(_, _, _)
\* the for loop of evaluate_postfix from token i on, then the final checks
EvalFrom(toks, i, stack) ==
    IF i > Len(toks)
    THEN IF Len(stack) # 1
         THEN Err("Invalid expression: too many operands", <<>>)
         ELSE FinalCheck(stack[1])
    ELSE LET token == toks[i]
         IN  IF token.t = "Number"
             THEN EvalFrom(toks, i + 1, Append(stack, token.v))
             ELSE IF token.t = "UnaryMinus"
             THEN IF stack = <<>>
                  THEN Err("Invalid expression: missing operand", <<>>)
                  ELSE EvalFrom(toks, i + 1,
                                Append(Front(stack), F64Neg(Last(stack))))
             ELSE IF token.t \in BinaryOps
             THEN IF Len(stack) < 2
                  THEN Err("Invalid expression: missing operand", <<>>)
                  ELSE LET b == stack[Len(stack)]
                           a == stack[Len(stack) - 1]
                           rest == SubSeq(stack, 1, Len(stack) - 2)
                       IN  IF DivisionByZero(token.t, a, b)
                           THEN Err("Division by zero", <<>>)
                           ELSE EvalFrom(toks, i + 1,
                                         Append(rest, ApplyBinary(token.t, a, b)))
             ELSE Err("Unexpected token in postfix evaluation", <<token.t>>)

evaluate_postfix(toks) == EvalFrom(toks, 1, <<>>)

------------------------------------------------------------------------------
(* Calculator::evaluate                                                     *)

RECURSIVE TrimStart(_)
TrimStart(s) == IF s # <<>> /\ Head(s) = " " THEN TrimStart(Tail(s)) ELSE s

RECURSIVE TrimEnd(_)
TrimEnd(s) == IF s # <<>> /\ Last(s) = " " THEN TrimEnd(Front(s)) ELSE s

\* str::trim on a text whose only white space is ' '
Trim(s) == TrimEnd(TrimStart(s))

OperatorChars == {"+", "-", "x", "X", "*", "/", "÷", "(", ")"}

evaluate(e) ==
    LET valid == validate_input(e)
        t     == Trim(e)
    IN  IF ~valid.ok THEN Err(valid.msg, valid.text)
        ELSE IF t = <<>> \/ t = <<"0">> THEN Ok(Zero(1))
        ELSE IF \A i \in 1..Len(t) : t[i] \notin OperatorChars
        THEN safe_parse_number(t)
        ELSE LET toks == tokenize(t)
             IN  IF ~toks.ok THEN Err(toks.msg, toks.text)
                 ELSE LET post == shunting_yard(toks.val)
                      IN  IF ~post.ok THEN Err(post.msg, post.text)
                          ELSE evaluate_postfix(post.val)

------------------------------------------------------------------------------
(* The inputs: an input is a sequence of lexemes, src, and the text handed  *)
(* to the calculator is the concatenation of their texts,                   *)
(* expr.  A number lexeme carries the value its text denotes, m * 10^e.     *)

\* most lexemes of a well-formed expression over small numbers
MaxLex == 7

\* most lexemes of a well-formed expression over numbers near the bound
MaxLexRange == 7

\* most characters of an arbitrary text
MaxLen == 5

\* most characters of an arbitrary text over the operator characters
MaxLenOps == 4

RECURSIVE IntToDigits(_)
IntToDigits(i) ==
    LET c == CHOOSE c \in Digits : DigitVal(c) = i % 10
    IN  IF i < 10 THEN <<c>> ELSE Append(IntToDigits(i \div 10), c)

Sym(k) == [k |-> k, t |-> <<k>>, m |-> 0, e |-> 0]

\* the symbol of kind k written as the character c
SymAs(k, c) == [k |-> k, t |-> <<c>>, m |-> 0, e |-> 0]

\* the number m written as plain digits
Lit(m) == [k |-> "num", t |-> IntToDigits(m), m |-> m, e |-> 0]

\* the number m * 10^e written in scientific notation
SciLit(m, e) ==
    [k |-> "num", m |-> m, e |-> e,
     t |-> IntToDigits(m) \o <<"e">>
           \o (IF e < 0 THEN <<"-">> ELSE <<>>) \o IntToDigits(Abs(e))]

\* a value as an operand of the reference evaluation
ValLex(v) == [k |-> "val", t |-> <<>>, m |-> 0, e |-> 0, v |-> v]

TextOf(lexemes) == Flatten([i \in 1..Len(lexemes) |-> lexemes[i].t])

BinarySyms == {Sym("+"), Sym("-"), Sym("x"), Sym("/")}

\* the well-formed expressions over the numbers lits, by number of lexemes:
\* a number, a parenthesized expression, a negated expression, or two
\* expressions joined by a binary operator (the right one not starting
\* with a sign).  acc[i] holds those of exactly i lexemes.
RECURSIVE WellFormed(_, _, _)
WellFormed(lits, n, acc) ==
    IF Len(acc) >= n THEN acc
    ELSE LET k == Len(acc) + 1
             new ==
                IF k = 1 THEN {<<l>> : l \in lits}
                ELSE {<<Sym("-")>> \o e : e \in acc[k - 1]}
                     \cup (IF k < 3 THEN {}
                           ELSE {<<Sym("(")>> \o e \o <<Sym(")")>> :
                                    e \in acc[k - 2]})
                     \cup UNION { {a \o <<op>> \o b :
                                     a \in acc[i], op \in BinarySyms,
                                     b \in {w \in acc[k - 1 - i] : w[1].k # "-"}}
                                  : i \in 1..(k - 2) }
         IN  WellFormed(lits, n, Append(acc, new))

WellFormedUpTo(lits, n) ==
    LET sets == WellFormed(lits, n, <<>>) IN UNION {sets[i] : i \in 1..n}

\* all sequences of 0..n lexemes of the set lexs
TextsUpTo(lexs, n) == UNION {[1..i -> lexs] : i \in 0..n}

SmallLits == {Lit(0), Lit(2), Lit(3)}

RangeLits == {SciLit(1, 60), SciLit(1, 100), SciLit(2, 100)}

\* literals on both sides of the bound 1e100 and of f64::MAX
BoundLits ==
    {SciLit(m, e) : m \in {1, 2, 9, 10, 11}, e \in {0, 99, 100, 101, 308, 309}}
    \cup {SciLit(1, -100), Lit(0)}

TextLexemes ==
    {Lit(2), Lit(3), Sym("+"), Sym("-"), Sym("x"), Sym("("), Sym(")"),
     SymAs("sp", " ")}

OpsLexemes ==
    {Lit(2), Sym("+"), Sym("-"), Sym("x"), SymAs("x", "X"), SymAs("x", "*"),
     Sym("/"), SymAs("/", "÷"), Sym("("), SymAs("e", "e")}

\* most characters of an arbitrary text over allowed and disallowed characters
MaxLenChars == 4

\* the lengths around MAX_INPUT_LENGTH differ from it by at most Slack
Slack == 2

\* the character c repeated n times, as "1".repeat(n) of the tests
Repeat(c, n) == [k |-> "rep", t |-> [i \in 1..n |-> c], m |-> n, e |-> 0]

\* allowed and disallowed characters of the validator tests
CharLexemes ==
    {Lit(2), Sym("+"), SymAs("/", "÷"), SymAs("bad", "a"), SymAs("bad", "@")}

\* inputs of about MAX_INPUT_LENGTH characters: n characters, some of them
\* the two-byte character, followed or not by a disallowed character
LongInputs ==
    LET lens  == (MAX_INPUT_LENGTH - Slack)..(MAX_INPUT_LENGTH + Slack)
        twos  == (0..Slack) \cup ((MAX_INPUT_LENGTH \div 2 - Slack)
                                  ..(MAX_INPUT_LENGTH \div 2 + Slack))
        fills == {"x", ".", "e"}
        tails == {<<>>, <<SymAs("bad", "@")>>}
    IN  {<<Repeat(f, n - b), Repeat("÷", b)>> \o tl :
            f \in fills, n \in lens, b \in twos, tl \in tails}
        \cup {<<Repeat("÷", b)>> \o tl :
                b \in (MAX_INPUT_LENGTH \div 2 - Slack)
                       ..(MAX_INPUT_LENGTH \div 2 + Slack),
                tl \in tails}

------------------------------------------------------------------------------
(* The text of an f64: f64::to_string and format!.  A fraction that has no  *)
(* finite decimal expansion is written with TextDigits significant digits.  *)
(* A value half way between two texts goes to the even digit.               *)

\* Most significant digits of the text of an f64 (17 for an f64; the model
\* keeps the nine that fit a 32-bit integer).
TextDigits == 9

DigitChar(i) == CHOOSE c \in Digits : DigitVal(c) = i

Zeros(k) == [i \in 1..k |-> "0"]

RECURSIVE TrimEndChar(_, _)
\* str::trim_end_matches(c)
TrimEndChar(s, c) ==
    IF s # <<>> /\ Last(s) = c THEN TrimEndChar(Front(s), c) ELSE s

RECURSIVE Lead(_, _, _)
\* n/d * 10^e as n'/d' * 10^e' with 1 <= n'/d' < 10, for n >= 1
Lead(n, d, e) ==
    IF n < d THEN Lead(n * 10, d, e - 1)
    ELSE IF n >= 10 * d THEN Lead(n, d * 10, e + 1)
    ELSE <<n, d, e>>

RECURSIVE QuotDigits(_, _, _)
\* the next k digits of num/d, for num < 10 * d, and what is left of num
QuotDigits(num, d, k) ==
    IF k <= 0 THEN [digits |-> <<>>, left |-> num]
    ELSE LET r == QuotDigits((num % d) * 10, d, k - 1)
         IN  [digits |-> <<DigitChar(num \div d)>> \o r.digits,
              left |-> r.left]

RECURSIVE Incr(_)
\* the decimal number digs plus one
Incr(digs) ==
    IF digs = <<>> THEN <<"1">>
    ELSE IF Last(digs) = "9" THEN Append(Incr(Front(digs)), "0")
    ELSE Append(Front(digs), DigitChar(DigitVal(Last(digs)) + 1))

\* digs, the digits before the rest left/d of the next digit, rounded to the
\* nearest, a tie to the even digit
RoundTo(digs, left, d) ==
    LET odd == digs # <<>> /\ DigitVal(Last(digs)) % 2 = 1
    IN  IF left > 5 * d \/ (left = 5 * d /\ odd) THEN Incr(digs) ELSE digs

\* the first k >= 1 significant digits of a finite non-zero v, rounded, and
\* the decimal exponent e of the first one
RoundDigits(v, k) ==
    LET l    == Lead(v.n, v.d, v.x)
        q    == QuotDigits(l[1], l[2], k)
        digs == RoundTo(q.digits, q.left, l[2])
    IN  IF Len(digs) > k THEN [digits |-> Front(digs), e |-> l[3] + 1]
        ELSE [digits |-> digs, e |-> l[3]]

SignText(v) == IF v.s = -1 THEN <<"-">> ELSE <<>>

\* the text of a special value: "NaN", "inf", "-inf"
SpecialText(v) ==
    IF v.k = "nan" THEN <<"N", "a", "N">> ELSE SignText(v) \o <<"i", "n", "f">>

\* the digits digs, the first one of decimal exponent e, in plain notation
Plain(digs, e) ==
    IF e < 0 THEN <<"0", ".">> \o Zeros(-e - 1) \o digs
    ELSE IF e + 1 >= Len(digs) THEN digs \o Zeros(e + 1 - Len(digs))
    ELSE SubSeq(digs, 1, e + 1) \o <<".">> \o SubSeq(digs, e + 2, Len(digs))

\* f64::to_string, format!("{}", v): the shortest plain decimal text
to_string(v) ==
    IF ~IsFinite(v) THEN SpecialText(v)
    ELSE IF IsZero(v) THEN SignText(v) \o <<"0">>
    ELSE IF v.d = 1
    THEN SignText(v) \o Plain(IntToDigits(v.n), NumDigits(v.n) - 1 + v.x)
    ELSE LET r == RoundDigits(v, TextDigits)
         IN  SignText(v) \o Plain(TrimEndChar(r.digits, "0"), r.e)

\* format!("{:.p$}", v) for p >= 1: p digits after the decimal point
FormatFixed(v, p) ==
    IF ~IsFinite(v) THEN SpecialText(v)
    ELSE IF IsZero(v) THEN SignText(v) \o <<"0", ".">> \o Zeros(p)
    ELSE LET l     == Lead(v.n, v.d, v.x)
             k     == l[3] + 1 + p
             width == (IF l[3] >= 0 THEN l[3] + 1 ELSE 1) + p
             q     == QuotDigits(l[1], l[2], k)
             whole == IF k < 0 THEN Zeros(width)
                      ELSE RoundTo(Zeros(width - k) \o q.digits, q.left, l[2])
         IN  SignText(v) \o SubSeq(whole, 1, Len(whole) - p) \o <<".">>
             \o SubSeq(whole, Len(whole) - p + 1, Len(whole))

\* format!("{:.p$e}", v) for p >= 1: one digit, p digits after the point and
\* the exponent
FormatExp(v, p) ==
    IF ~IsFinite(v) THEN SpecialText(v)
    ELSE IF IsZero(v) THEN SignText(v) \o <<"0", ".">> \o Zeros(p) \o <<"e", "0">>
    ELSE LET r == RoundDigits(v, p + 1)
         IN  SignText(v) \o <<r.digits[1]>> \o <<".">> \o Tail(r.digits)
             \o <<"e">> \o (IF r.e < 0 THEN <<"-">> ELSE <<>>)
             \o IntToDigits(Abs(r.e))

------------------------------------------------------------------------------
(* Texts: string literals of the code and the text of an error              *)

StartsWith(s, prefix) ==
    Len(s) >= Len(prefix) /\ SubSeq(s, 1, Len(prefix)) = prefix

EndsWith(s, suffix) ==
    Len(s) >= Len(suffix)
    /\ SubSeq(s, Len(s) - Len(suffix) + 1, Len(s)) = suffix

\* str::contains of one of the characters of set
Contains(s, set) == \E i \in 1..Len(s) : s[i] \in set

\* the characters of a string literal of the code
Chars(str) ==
    CASE str = "Division by zero" ->
        <<"D", "i", "v", "i", "s", "i", "o", "n", " ", "b", "y", " ", "z",
        "e", "r", "o">>
      [] str = "Invalid number" ->
        <<"I", "n", "v", "a", "l", "i", "d", " ", "n", "u", "m", "b", "e",
        "r">>
      [] str = "Invalid expression: too many operands" ->
        <<"I", "n", "v", "a", "l", "i", "d", " ", "e", "x", "p", "r", "e",
        "s", "s", "i", "o", "n", ":", " ", "t", "o", "o", " ", "m", "a",
        "n", "y", " ", "o", "p", "e", "r", "a", "n", "d", "s">>
      [] str = "Invalid expression: missing operand" ->
        <<"I", "n", "v", "a", "l", "i", "d", " ", "e", "x", "p", "r", "e",
        "s", "s", "i", "o", "n", ":", " ", "m", "i", "s", "s", "i", "n",
        "g", " ", "o", "p", "e", "r", "a", "n", "d">>
      [] str = "Input too long" ->
        <<"I", "n", "p", "u", "t", " ", "t", "o", "o", " ", "l", "o", "n",
        "g">>
      [] str = "Invalid characters" ->
        <<"I", "n", "v", "a", "l", "i", "d", " ", "c", "h", "a", "r", "a",
        "c", "t", "e", "r", "s">>
      [] str = "Number out of range" ->
        <<"N", "u", "m", "b", "e", "r", " ", "o", "u", "t", " ", "o", "f",
        " ", "r", "a", "n", "g", "e">>
      [] str = "Invalid character" ->
        <<"I", "n", "v", "a", "l", "i", "d", " ", "c", "h", "a", "r", "a",
        "c", "t", "e", "r">>
      [] str = "Invalid number format: multiple decimal points" ->
        <<"I", "n", "v", "a", "l", "i", "d", " ", "n", "u", "m", "b", "e",
        "r", " ", "f", "o", "r", "m", "a", "t", ":", " ", "m", "u", "l",
        "t", "i", "p", "l", "e", " ", "d", "e", "c", "i", "m", "a", "l",
        " ", "p", "o", "i", "n", "t", "s">>
      [] str = "Invalid number format: multiple 'e'" ->
        <<"I", "n", "v", "a", "l", "i", "d", " ", "n", "u", "m", "b", "e",
        "r", " ", "f", "o", "r", "m", "a", "t", ":", " ", "m", "u", "l",
        "t", "i", "p", "l", "e", " ", "'", "e", "'">>
      [] str = "Unexpected '+' operator" ->
        <<"U", "n", "e", "x", "p", "e", "c", "t", "e", "d", " ", "'", "+",
        "'", " ", "o", "p", "e", "r", "a", "t", "o", "r">>
      [] str = "Unexpected multiplication operator" ->
        <<"U", "n", "e", "x", "p", "e", "c", "t", "e", "d", " ", "m", "u",
        "l", "t", "i", "p", "l", "i", "c", "a", "t", "i", "o", "n", " ",
        "o", "p", "e", "r", "a", "t", "o", "r">>
      [] str = "Unexpected division operator" ->
        <<"U", "n", "e", "x", "p", "e", "c", "t", "e", "d", " ", "d", "i",
        "v", "i", "s", "i", "o", "n", " ", "o", "p", "e", "r", "a", "t",
        "o", "r">>
      [] str = "Consecutive operators" ->
        <<"C", "o", "n", "s", "e", "c", "u", "t", "i", "v", "e", " ", "o",
        "p", "e", "r", "a", "t", "o", "r", "s">>
      [] str = "Unexpected ')' - missing operand" ->
        <<"U", "n", "e", "x", "p", "e", "c", "t", "e", "d", " ", "'", ")",
        "'", " ", "-", " ", "m", "i", "s", "s", "i", "n", "g", " ", "o",
        "p", "e", "r", "a", "n", "d">>
      [] str = "Mismatched parentheses" ->
        <<"M", "i", "s", "m", "a", "t", "c", "h", "e", "d", " ", "p", "a",
        "r", "e", "n", "t", "h", "e", "s", "e", "s">>
      [] str = "Unexpected token in postfix evaluation" ->
        <<"U", "n", "e", "x", "p", "e", "c", "t", "e", "d", " ", "t", "o",
        "k", "e", "n", " ", "i", "n", " ", "p", "o", "s", "t", "f", "i",
        "x", " ", "e", "v", "a", "l", "u", "a", "t", "i", "o", "n">>
      [] str = "Error" ->
        <<"E", "r", "r", "o", "r">>
      [] str = "Invalid" ->
        <<"I", "n", "v", "a", "l", "i", "d">>
      [] str = "Division" ->
        <<"D", "i", "v", "i", "s", "i", "o", "n">>

\* the String an error of evaluate is returned as: the Display of a
\* CalculatorError or the formatted message of tokenize, shunting_yard and
\* evaluate_postfix
ErrorText(r) ==
    IF r.msg \in {"Invalid number", "Invalid characters", "Invalid character",
                  "Unexpected token in postfix evaluation"}
    THEN Chars(r.msg) \o <<":", " ">> \o r.text
    ELSE IF r.msg = "Number out of range"
    THEN Chars(r.msg) \o <<":", " ">>
         \o (IF r.text # <<>> THEN r.text ELSE to_string(r.val))
    ELSE IF r.msg \in {"Invalid number format: multiple decimal points",
                       "Invalid number format: multiple 'e'"}
    THEN Chars(r.msg) \o <<" ", "i", "n", " ", "'">> \o r.text \o <<"'">>
    ELSE Chars(r.msg)

------------------------------------------------------------------------------
(* display.rs: format_large_numbers, add_parentheses_to_negative_operands   *)
(* and display_string                                                       *)

\* the "+-x÷" of input.rs and display.rs
OpChars == {"+", "-", "x", "÷"}

\* v.abs() >= m * 10^e
AbsGe(v, m, e) ==
    v.k = "inf" \/ (v.k = "fin" /\ ~IsZero(v) /\ ~MagLt(v, m, e))

\* v.abs() < m * 10^e
AbsLt(v, m, e) == v.k = "fin" /\ (IsZero(v) \/ MagLt(v, m, e))

\* v > 0.0
IsPositive(v) == v.k \in {"fin", "inf"} /\ ~IsZero(v) /\ v.s = 1

\* v.abs()
F64Abs(v) == IF v.k = "nan" THEN NaN ELSE [v EXCEPT !.s = 1]

RECURSIVE NumEnd(_, _)
\* the inner while loop of format_large_numbers: the index after the number
NumEnd(chars, i) ==
    IF /\ i <= Len(chars)
       /\ \/ chars[i] \in Digits
          \/ chars[i] = "."
          \/ (/\ chars[i] = "e"
              /\ i + 1 <= Len(chars)
              /\ chars[i + 1] \in Digits \cup {"+", "-"})
    THEN NumEnd(chars, i + 1)
    ELSE i

RECURSIVE FormatFrom(_, _)
\* the outer while loop of format_large_numbers from index i on
FormatFrom(chars, i) ==
    IF i > Len(chars) THEN <<>>
    ELSE LET c == chars[i]
         IN  IF \/ c \in Digits
                \/ c = "."
                \/ (c = "-" /\ i + 1 <= Len(chars) /\ chars[i + 1] \in Digits)
             THEN LET j       == NumEnd(chars, i + 1)
                      num_str == SubSeq(chars, i, j - 1)
                      Shown(value) ==
                          IF /\ value.k # "none"
                             /\ \/ AbsGe(value, 1, 9)
                                \/ (AbsLt(value, 1, 0) /\ ~IsZero(value))
                                \/ (/\ ByteLen(num_str) > 10
                                    /\ ~Contains(num_str, {"."})
                                    /\ ~Contains(num_str, {"e"}))
                          THEN FormatExp(value, 1)
                          ELSE num_str
                  IN  Shown(ParseF64(num_str)) \o FormatFrom(chars, j)
             ELSE <<c>> \o FormatFrom(chars, i + 1)

format_large_numbers(expr_text) == FormatFrom(expr_text, 1)

RECURSIVE NegEnd(_, _)
\* the inner while loop of add_parentheses_to_negative_operands
NegEnd(chars, i) ==
    IF i <= Len(chars) /\ chars[i] \in Digits \cup {".", "e", "+", "-"}
    THEN NegEnd(chars, i + 1)
    ELSE i

RECURSIVE ParensFrom(_, _)
\* the outer while loop of add_parentheses_to_negative_operands from i on
ParensFrom(chars, i) ==
    IF i > Len(chars) THEN <<>>
    ELSE IF chars[i] \in OpChars /\ i + 1 <= Len(chars) /\ chars[i + 1] = "-"
    THEN LET j == NegEnd(chars, i + 2)
         IN  <<chars[i], "(", "-">> \o SubSeq(chars, i + 2, j - 1) \o <<")">>
             \o ParensFrom(chars, j)
    ELSE <<chars[i]>> \o ParensFrom(chars, i + 1)

add_parentheses_to_negative_operands(expr_text) == ParensFrom(expr_text, 1)

\* Calculator::display_string of a calculator whose expression is given
display_string(expression_text) ==
    add_parentheses_to_negative_operands(format_large_numbers(expression_text))

------------------------------------------------------------------------------
(* input.rs: the handlers.  A calculator is a record of its fields; a       *)
(* handler returns the calculator it leaves and whether it panicked.        *)

Calc(e, d, n) == [expression |-> e, display |-> d, new_input |-> n]

\* Calculator::new
new == Calc(<<"0">>, <<"0">>, FALSE)

\* the handler returned, leaving the fields e, d, n
Done(e, d, n) ==
    [expression |-> e, display |-> d, new_input |-> n, panic |-> FALSE]

\* the handler returned without a change
Same(c) == Done(c.expression, c.display, c.new_input)

\* the handler panicked, before any assignment
Panic(c) ==
    [expression |-> c.expression, display |-> c.display,
     new_input |-> c.new_input, panic |-> TRUE]

\* the byte offset at which the i-th character of s starts
ByteOffset(s, i) == ByteLen(SubSeq(s, 1, i - 1))

\* str::is_char_boundary(b)
IsCharBoundary(s, b) == \E i \in 1..(Len(s) + 1) : ByteOffset(s, i) = b

\* &s[b..] for a char boundary b
SliceFrom(s, b) ==
    SubSeq(s, CHOOSE i \in 1..(Len(s) + 1) : ByteOffset(s, i) = b, Len(s))

\* String::truncate(b) for a char boundary b
Truncate(s, b) ==
    IF b >= ByteLen(s) THEN s
    ELSE SubSeq(s, 1, (CHOOSE i \in 1..(Len(s) + 1) : ByteOffset(s, i) = b) - 1)

\* the error test of handle_number_input
ShowsError(display_text) ==
    \/ display_text = Chars("Error")
    \/ StartsWith(display_text, Chars("Invalid"))
    \/ StartsWith(display_text, Chars("Division"))
    \/ StartsWith(display_text, Chars("Number out of range"))

\* a Digit that shows only the new operand after an operator
handle_number_input_operand(c, digit) ==
    LET d == IntToDigits(digit)
    IN  IF ShowsError(c.display) THEN Done(d, d, FALSE)
        ELSE IF c.new_input /\ ~Contains(c.expression, OpChars)
        THEN Done(d, d, FALSE)
        ELSE IF c.new_input
        THEN Done(c.expression \o d, d, FALSE)
        ELSE IF c.display = <<"0">> THEN Done(d, d, c.new_input)
        ELSE Done(c.expression \o d, c.display \o d, c.new_input)

handle_number_input(c, digit) ==
    LET d == IntToDigits(digit)
    IN  IF ShowsError(c.display) THEN Done(d, d, FALSE)
        ELSE IF c.new_input /\ ~Contains(c.expression, OpChars)
        THEN Done(d, d, FALSE)
        ELSE IF c.new_input
        THEN Done(c.expression \o d, display_string(c.expression \o d), FALSE)
        ELSE IF c.display = <<"0">> THEN Done(d, d, c.new_input)
        ELSE Done(c.expression \o d, c.display \o d, c.new_input)

\* the op_char of an Operation
OpChar(operation) ==
    CASE operation = "Add" -> "+"
      [] operation = "Subtract" -> "-"
      [] operation = "Multiply" -> "x"
      [] operation = "Divide" -> "÷"

\* an Operator that appends op_char whatever the expression ends with
handle_operation_input_append(c, operation) ==
    IF c.display = Chars("Error") THEN Same(c)
    ELSE LET e == Append(c.expression, OpChar(operation))
         IN  Done(e, display_string(e), TRUE)

\* an Operator that leaves the display as it was
handle_operation_input_display(c, operation) ==
    IF c.display = Chars("Error") THEN Same(c)
    ELSE LET kept == IF c.expression # <<>> /\ Last(c.expression) \in OpChars
                     THEN Front(c.expression)
                     ELSE c.expression
         IN  Done(Append(kept, OpChar(operation)), c.display, TRUE)

handle_operation_input(c, operation) ==
    IF c.display = Chars("Error") THEN Same(c)
    ELSE LET kept == IF c.expression # <<>> /\ Last(c.expression) \in OpChars
                     THEN Front(c.expression)
                     ELSE c.expression
             e    == Append(kept, OpChar(operation))
         IN  Done(e, display_string(e), TRUE)

\* an Equals that trims the zeros of the fixed-point text and leaves the point
handle_equals_input_point(c) ==
    IF c.display = Chars("Error") THEN Same(c)
    ELSE LET Result(v) ==
                 Done(to_string(v),
                      IF \/ AbsGe(v, 1, 6)
                         \/ (AbsLt(v, 1, -4) /\ ~IsZero(v))
                      THEN FormatExp(v, 4)
                      ELSE TrimEndChar(FormatFixed(v, 8), "0"),
                      TRUE)
             \* the result is an f64: it has the digits that to_string writes
             Shown(r) ==
                 IF r.ok THEN Result(ParseF64(to_string(r.val)))
                 ELSE Done(<<"0">>, ErrorText(r), c.new_input)
         IN  Shown(evaluate(c.expression))

\* an Equals that keeps the expression when the evaluation fails
handle_equals_input_keeping(c) ==
    IF c.display = Chars("Error") THEN Same(c)
    ELSE LET Result(v) ==
                 Done(to_string(v),
                      IF \/ AbsGe(v, 1, 6)
                         \/ (AbsLt(v, 1, -4) /\ ~IsZero(v))
                      THEN FormatExp(v, 4)
                      ELSE TrimEndChar(TrimEndChar(FormatFixed(v, 8), "0"), "."),
                      TRUE)
             \* the result is an f64: it has the digits that to_string writes
             Shown(r) ==
                 IF r.ok THEN Result(ParseF64(to_string(r.val)))
                 ELSE Done(c.expression, ErrorText(r), c.new_input)
         IN  Shown(evaluate(c.expression))

\* an Equals that stores the result rounded to two decimals
handle_equals_input_rounded(c) ==
    IF c.display = Chars("Error") THEN Same(c)
    ELSE LET Result(v) ==
                 Done(TrimEndChar(TrimEndChar(FormatFixed(v, 2), "0"), "."),
                      IF \/ AbsGe(v, 1, 6)
                         \/ (AbsLt(v, 1, -4) /\ ~IsZero(v))
                      THEN FormatExp(v, 4)
                      ELSE TrimEndChar(TrimEndChar(FormatFixed(v, 8), "0"), "."),
                      TRUE)
             \* the result is an f64: it has the digits that to_string writes
             Shown(r) ==
                 IF r.ok THEN Result(ParseF64(to_string(r.val)))
                 ELSE Done(<<"0">>, ErrorText(r), c.new_input)
         IN  Shown(evaluate(c.expression))

handle_equals_input(c) ==
    IF c.display = Chars("Error") THEN Same(c)
    ELSE LET Result(v) ==
                 Done(to_string(v),
                      IF \/ AbsGe(v, 1, 6)
                         \/ (AbsLt(v, 1, -4) /\ ~IsZero(v))
                      THEN FormatExp(v, 4)
                      ELSE TrimEndChar(TrimEndChar(FormatFixed(v, 8), "0"), "."),
                      TRUE)
             \* the result is an f64: it has the digits that to_string writes
             Shown(r) ==
                 IF r.ok THEN Result(ParseF64(to_string(r.val)))
                 ELSE Done(<<"0">>, ErrorText(r), c.new_input)
         IN  Shown(evaluate(c.expression))

handle_decimal_input(c) ==
    IF c.display = Chars("Error") THEN Done(<<"0", ".">>, <<"0", ".">>, FALSE)
    ELSE IF c.new_input /\ ~Contains(c.expression, OpChars)
    THEN Done(<<"0", ".">>, <<"0", ".">>, FALSE)
    ELSE IF c.new_input
    THEN Done(c.expression \o <<"0", ".">>,
              display_string(c.expression \o <<"0", ".">>), FALSE)
    ELSE IF c.display = <<"0">>
    THEN Done(<<"0", ".">>, <<"0", ".">>, c.new_input)
    ELSE IF ~Contains(c.display, {"."})
    THEN Done(Append(c.expression, "."), Append(c.display, "."), c.new_input)
    ELSE Same(c)

\* a Backspace that drops the whole operand in entry
handle_backspace_input_operand(c) ==
    IF c.display = Chars("Error") THEN Done(<<"0">>, <<"0">>, FALSE)
    ELSE IF ByteLen(c.expression) > 1
    THEN LET last_char == Last(c.expression)
             e         == Front(c.expression)
         IN  IF last_char \in OpChars THEN Done(e, display_string(e), TRUE)
             ELSE LET k == IF \E i \in 1..Len(e) : e[i] \in OpChars
                           THEN CHOOSE i \in 1..Len(e) :
                                    /\ e[i] \in OpChars
                                    /\ \A j \in (i + 1)..Len(e) :
                                           e[j] \notin OpChars
                           ELSE 1
                      f == SubSeq(e, 1, k)
                  IN  Done(f, display_string(f), ~(f = <<>> \/ f = <<"0">>))
    ELSE IF c.expression = <<"0">> THEN Same(c)
    ELSE Done(<<"0">>, <<"0">>, FALSE)

handle_backspace_input(c) ==
    IF c.display = Chars("Error") THEN Done(<<"0">>, <<"0">>, FALSE)
    ELSE IF ByteLen(c.expression) > 1
    THEN LET last_char == Last(c.expression)
             e         == Front(c.expression)
         IN  Done(e, display_string(e),
                  IF last_char \in OpChars THEN TRUE
                  ELSE ~(e = <<>> \/ e = <<"0">>))
    ELSE IF c.expression = <<"0">> THEN Same(c)
    ELSE Done(<<"0">>, <<"0">>, FALSE)

\* a Percent that takes a display that is no number for zero
handle_percentage_input_zero(c) ==
    LET sp == {i \in 1..Len(c.expression) : c.expression[i] = " "}
        Shown(t) ==
            IF sp # {}
            THEN Done(SubSeq(c.expression, 1,
                             CHOOSE i \in sp : \A j \in sp : j <= i) \o t,
                      t, c.new_input)
            ELSE Done(t, t, c.new_input)
        Percentage(value) ==
            IF value.k = "none" THEN Shown(<<"0">>)
            ELSE Shown(to_string(F64Div(value, Fin(1, 1, 1, 2))))
    IN  Percentage(ParseF64(c.display))

handle_percentage_input(c) ==
    LET sp == {i \in 1..Len(c.expression) : c.expression[i] = " "}
        Shown(t) ==
            IF sp # {}
            THEN Done(SubSeq(c.expression, 1,
                             CHOOSE i \in sp : \A j \in sp : j <= i) \o t,
                      t, c.new_input)
            ELSE Done(t, t, c.new_input)
        Percentage(value) ==
            IF value.k = "none" THEN Same(c)
            ELSE Shown(to_string(F64Div(value, Fin(1, 1, 1, 2))))
    IN  Percentage(ParseF64(c.display))

RECURSIVE FindLastOp(_, _, _)
\* the while loop of find_last_operator_position at index i (from 1) with
\* paren_depth: the index of the operator found, 0 for None
FindLastOp(chars, i, paren_depth) ==
    IF i < 1 THEN 0
    ELSE IF chars[i] = ")" THEN FindLastOp(chars, i - 1, paren_depth + 1)
    ELSE IF chars[i] = "(" THEN FindLastOp(chars, i - 1, paren_depth - 1)
    ELSE IF paren_depth = 0 /\ chars[i] \in OpChars
    THEN LET is_negative_sign ==
                 chars[i] = "-" /\ (i = 1 \/ chars[i - 1] \in OpChars)
         IN  IF ~is_negative_sign THEN i
             ELSE FindLastOp(chars, i - 1, paren_depth)
    ELSE FindLastOp(chars, i - 1, paren_depth)

\* Some(p - 1) is returned as p, None as 0
find_last_operator_position(expr_text) ==
    FindLastOp(expr_text, Len(expr_text), 0)

\* the match on current_part of handle_sign_toggle_input; NoParse for None
NumValue(s) ==
    LET Negated(inner) == IF inner.k = "none" THEN NoParse ELSE F64Neg(inner)
        Regular(value) ==
            IF value.k # "none" THEN value
            ELSE IF StartsWith(s, <<"(", "-">>) /\ EndsWith(s, <<")">>)
            THEN Negated(ParseF64(SubSeq(s, 3, Len(s) - 1)))
            ELSE IF /\ StartsWith(s, <<"-">>)
                    /\ ByteLen(s) > 3
                    /\ StartsWith(Tail(s), <<"(", "-">>)
                    /\ EndsWith(s, <<")">>)
            THEN ParseF64(SubSeq(s, 4, Len(s) - 1))
            ELSE NoParse
    IN  Regular(ParseF64(s))

handle_sign_toggle_input(c) ==
    LET pos == find_last_operator_position(c.expression)
        has_operators ==
            \/ Contains(c.expression, {"+", "x", "÷"})
            \/ (Contains(c.expression, {"-"}) /\ pos # 0)
    IN  IF has_operators
        THEN IF pos = 0 THEN Same(c)
             \* &self.expression[last_op_pos + 1..], a byte index
             ELSE IF ~IsCharBoundary(c.expression, pos) THEN Panic(c)
             ELSE LET current_part == SliceFrom(c.expression, pos)
                      Shown(e) == Done(e, display_string(e), FALSE)
                      Replaced(num_value) ==
                          IF num_value.k = "none" THEN Same(c)
                          ELSE Shown(Truncate(c.expression, pos)
                                     \o (IF IsPositive(num_value)
                                         THEN <<"(", "-">>
                                              \o to_string(num_value)
                                              \o <<")">>
                                         ELSE to_string(F64Abs(num_value))))
                  IN  Replaced(NumValue(current_part))
        ELSE LET Negative(t) ==
                     Done(<<"-">> \o t, <<"(", "-">> \o t \o <<")">>,
                          c.new_input)
                 Positive(t) == Done(t, t, c.new_input)
                 Toggled(display_value) ==
                     IF display_value.k = "none" THEN Same(c)
                     ELSE IF IsPositive(display_value)
                     THEN Negative(to_string(display_value))
                     ELSE Positive(to_string(F64Abs(display_value)))
             IN  Toggled(IF /\ StartsWith(c.display, <<"(", "-">>)
                            /\ EndsWith(c.display, <<")">>)
                         THEN ParseF64(SubSeq(c.display, 2,
                                              Len(c.display) - 1))
                         ELSE ParseF64(c.display))

\* a Clear that leaves new_input alone
handle_clear_input_texts(c) == Done(<<"0">>, <<"0">>, c.new_input)

handle_clear_input(c) == Done(<<"0">>, <<"0">>, FALSE)

------------------------------------------------------------------------------
(* ui.rs: UIMessage, MessageResult and CalculatorUIState::process_message   *)

Message(t, digit, operation) ==
    [t |-> t, digit |-> digit, operation |-> operation]

Operations == {"Add", "Subtract", "Multiply", "Divide"}

\* new_len > old_len, on the lengths in bytes
ScrollHint(old_text, new_text) ==
    IF ByteLen(new_text) > ByteLen(old_text) THEN "ScrollToEnd" ELSE "NoScroll"

\* process_message on the calculator c, where h is what the handler of the
\* message's arm leaves of c: the calculator left, and the MessageResult
\* returned (none when the handler panicked)
process_message(c, h) ==
    [after |-> h,
     hint  |-> IF h.panic THEN "none"
               ELSE ScrollHint(c.expression, h.expression)]

------------------------------------------------------------------------------
(* The state: the input and the public function applied to it               *)

\* no message processed yet
NoMessage ==
    [message |-> Message("none", 0, ""), hint |-> "none", panic |-> FALSE]

\* Calculator::new() and CalculatorUIState::new()
NewCalculator ==
    /\ expression = new.expression
    /\ display = new.display
    /\ new_input = new.new_input
    /\ last = NoMessage

Start(inputs) ==
    /\ src \in inputs
    /\ expr = TextOf(src)
    /\ stage = "start"
    /\ result = NoResult
    /\ NewCalculator
    /\ keys = <<>>

\* calc.evaluate(expr)
Evaluate ==
    /\ stage = "start"
    /\ stage' = "evaluate"
    /\ result' = evaluate(expr)
    /\ UNCHANGED <<src, expr, fields>>

\* Calculator::validate_input(expr)
ValidateInput ==
    /\ stage = "start"
    /\ stage' = "validate_input"
    /\ result' = validate_input(expr)
    /\ UNCHANGED <<src, expr, fields>>

\* Calculator::safe_parse_number(expr)
SafeParseNumber ==
    /\ stage = "start"
    /\ stage' = "safe_parse_number"
    /\ result' = safe_parse_number(expr)
    /\ UNCHANGED <<src, expr, fields>>

Next == Evaluate \/ ValidateInput \/ SafeParseNumber

\* arbitrary short texts
Init == Start(TextsUpTo(TextLexemes, MaxLen))

Spec == Init /\ [][Next]_vars

\* well-formed expressions over small numbers
InitExpr == Start(WellFormedUpTo(SmallLits, MaxLex))

SpecExpr == InitExpr /\ [][Next]_vars

\* literals and well-formed expressions around the bound 1e100
InitRange ==
    Start(WellFormedUpTo(RangeLits, MaxLexRange)
          \cup {<<l>> : l \in BoundLits}
          \cup {<<Sym("-"), l>> : l \in BoundLits})

SpecRange == InitRange /\ [][Next]_vars

\* arbitrary short texts over the operator characters
InitOps == Start(TextsUpTo(OpsLexemes, MaxLenOps))

SpecOps == InitOps /\ [][Next]_vars

\* short texts with disallowed characters, and texts about as long as
\* MAX_INPUT_LENGTH
InitChars == Start(TextsUpTo(CharLexemes, MaxLenChars) \cup LongInputs)

SpecChars == InitChars /\ [][Next]_vars

------------------------------------------------------------------------------
(* The user interface: one action for each UIMessage, the arm of the match *)
(* of process_message that handles it.  The messages come at will (stage    *)
(* "ui"), or one by one from the script src (stage "keys").                 *)

\* most characters of an expression that a message at will may still extend
MaxExpression == 3

\* the digits pressed at will
FreeDigits == {0, 2, 5}

\* the messages that may make the expression longer
Extending ==
    {"NumberPressed", "DecimalPressed", "OperationPressed",
     "PercentagePressed", "SignTogglePressed"}

\* ui_state.process_message(message)
\* the calculator of the user interface
Calculator == Calc(expression, display, new_input)

\* process_message(message), h being what the handler leaves
Process(message, h) ==
    /\ stage \in {"ui", "keys"}
    /\ ~last.panic
    /\ IF stage = "keys"
       THEN keys # <<>> /\ Head(keys) = message /\ keys' = Tail(keys)
       ELSE /\ message.t = "NumberPressed" => message.digit \in FreeDigits
            /\ message.t \in Extending => Len(expression) < MaxExpression
            /\ keys' = keys
    /\ LET r == process_message(Calculator, h)
       IN  /\ expression' = r.after.expression
           /\ display' = r.after.display
           /\ new_input' = r.after.new_input
           /\ last' = [message |-> message, hint |-> r.hint,
                       panic |-> r.after.panic]
    /\ UNCHANGED <<src, expr, stage, result>>

NumberPressed ==
    \E digit \in 0..9 :
        Process(Message("NumberPressed", digit, ""),
                handle_number_input(Calculator, digit))

DecimalPressed ==
    Process(Message("DecimalPressed", 0, ""), handle_decimal_input(Calculator))

OperationPressed ==
    \E operation \in Operations :
        Process(Message("OperationPressed", 0, operation),
                handle_operation_input(Calculator, operation))

EqualsPressed ==
    Process(Message("EqualsPressed", 0, ""), handle_equals_input(Calculator))

ClearPressed ==
    Process(Message("ClearPressed", 0, ""), handle_clear_input(Calculator))

BackspacePressed ==
    Process(Message("BackspacePressed", 0, ""),
            handle_backspace_input(Calculator))

PercentagePressed ==
    Process(Message("PercentagePressed", 0, ""),
            handle_percentage_input(Calculator))

SignTogglePressed ==
    Process(Message("SignTogglePressed", 0, ""),
            handle_sign_toggle_input(Calculator))

NextUI ==
    \/ NumberPressed
    \/ DecimalPressed
    \/ OperationPressed
    \/ EqualsPressed
    \/ ClearPressed
    \/ BackspacePressed
    \/ PercentagePressed
    \/ SignTogglePressed

Digit(d) == Message("NumberPressed", d, "")

Operator(operation) == Message("OperationPressed", 0, operation)

\* the scenarios of the tests: a digit, an operation, a digit and Equals;
\* "123+45" and three Backspaces; Clear after a division by zero
Scripts ==
    {<<Digit(a), Operator(operation), Digit(b), Message("EqualsPressed", 0, "")>> :
        a \in 0..9, b \in 0..9, operation \in Operations}
    \cup {<<Digit(1), Digit(2), Digit(3), Operator("Add"), Digit(4), Digit(5),
            Message("BackspacePressed", 0, ""),
            Message("BackspacePressed", 0, ""),
            Message("BackspacePressed", 0, "")>>,
          <<Digit(5), Operator("Divide"), Digit(0),
            Message("EqualsPressed", 0, ""), Message("ClearPressed", 0, "")>>,
          <<Digit(7), Operator("Add"), Operator("Subtract"),
            Operator("Multiply"), Operator("Divide")>>,
          <<Digit(5), Message("DecimalPressed", 0, ""),
            Message("DecimalPressed", 0, "")>>,
          <<Digit(2), Operator("Add"), Digit(1),
            Message("DecimalPressed", 0, ""), Digit(5),
            Message("BackspacePressed", 0, ""),
            Message("DecimalPressed", 0, "")>>,
          <<Digit(1), Digit(2), Message("BackspacePressed", 0, ""), Digit(5)>>,
          <<Digit(5), Operator("Divide"), Digit(3),
            Message("SignTogglePressed", 0, "")>>,
          <<Digit(5), Operator("Add"), Digit(3),
            Message("SignTogglePressed", 0, ""),
            Message("SignTogglePressed", 0, "")>>,
          <<Digit(5), Digit(0), Message("PercentagePressed", 0, "")>>,
          <<Digit(5), Operator("Add"), Digit(3), Digit(0),
            Message("PercentagePressed", 0, "")>>,
          <<Digit(0), Message("DecimalPressed", 0, ""), Digit(5),
            Operator("Add")>>,
          <<Digit(1), Message("DecimalPressed", 0, ""), Digit(5),
            Operator("Add"), Digit(2), Message("DecimalPressed", 0, "")>>}
    \cup {<<Digit(a), Operator(operation), Digit(3),
             Message("EqualsPressed", 0, ""), Message("EqualsPressed", 0, "")>> :
            a \in {1, 3}, operation \in {"Divide", "Subtract"}}
    \cup {<<Digit(1), Operator("Divide"), Digit(3),
             Message("EqualsPressed", 0, ""),
             Message("SignTogglePressed", 0, "")>>}

\* a new calculator, and any messages or the messages of a scenario
InitUI ==
    /\ \/ src = <<>> /\ stage = "ui"
       \/ src \in Scripts /\ stage = "keys"
    /\ expr = <<>>
    /\ result = NoResult
    /\ NewCalculator
    /\ keys = src

SpecUI == InitUI /\ [][NextUI]_vars

------------------------------------------------------------------------------
(* The display of an expression: the expression field is set to a text, as  *)
(* the tests set it, and display_string renders it.                         *)

\* most lexemes of an expression to display
MaxLenDisplay == 6

\* numbers that format_large_numbers leaves as they are, and the operators
DisplayLexemes ==
    {Lit(7), Lit(9), Sym("+"), Sym("-"), Sym("x"), SymAs("/", "÷")}

\* most operands of an expression of numbers to format
MaxOperands == 2

\* expressions of 1..MaxOperands numbers joined by operators; the numbers
\* lie on both sides of the thresholds of format_large_numbers: 1e9, 1,
\* and 10 characters of plain integer text
FormatInputs ==
    LET Num(t, m, e) == [k |-> "num", t |-> t, m |-> m, e |-> e]
        nums == {Lit(0), Lit(7), Lit(999999999), Lit(1000000000),
                 Num(<<"0", ".", "5">>, 5, -1), Num(<<"1", ".", "5">>, 15, -1),
                 Num(Zeros(9) \o <<"1">>, 1, 0),
                 Num(Zeros(10) \o <<"1">>, 1, 0),
                 SciLit(1, 10), SciLit(2, -3)}
        ops  == {Sym("+"), Sym("-"), Sym("x"), SymAs("/", "÷")}
    IN  UNION {{s \in [1..(2 * n - 1) -> nums \cup ops] :
                    \A i \in 1..(2 * n - 1) :
                        s[i] \in (IF i % 2 = 1 THEN nums ELSE ops)} :
               n \in 1..MaxOperands}

\* calc.expression = text, on a new calculator
InitDisplay ==
    /\ src \in TextsUpTo(DisplayLexemes, MaxLenDisplay) \cup FormatInputs
    /\ expr = <<>>
    /\ stage = "expression"
    /\ result = NoResult
    /\ expression = TextOf(src)
    /\ display = new.display
    /\ new_input = new.new_input
    /\ last = NoMessage
    /\ keys = <<>>

\* self.display = self.display_string()
DisplayString ==
    /\ stage = "expression"
    /\ stage' = "display_string"
    /\ display' = display_string(expression)
    /\ UNCHANGED <<src, expr, result, expression, new_input, last, keys>>

SpecDisplay == InitDisplay /\ [][DisplayString]_vars

------------------------------------------------------------------------------
(* Reference evaluation of a well-formed lexeme sequence, by rewriting:     *)
(* the innermost parenthesized group first; inside a group the leading      *)
(* signs, then x and / from the left, then + and - from the left.           *)

\* the value of an operand lexeme
NumVal(l) ==
    IF l.k = "val" THEN l.v
    ELSE IF l.m = 0 THEN Zero(1)
    ELSE LET c == StripNum(l.m, 1, l.e) IN Fin(1, c[1], 1, c[3])

\* the literal l denotes a magnitude above 10^100
LitExceeds(l) ==
    LET dm == NumDigits(l.m)
    IN  /\ l.k = "num"
        /\ l.m > 0
        /\ (dm + l.e > 101 \/ (dm + l.e = 101 /\ l.m > Pow10(dm - 1)))

\* the value v is not finite or has a magnitude above 10^100
RefExceeds(v) == v.k # "fin" \/ (v.n # 0 /\ MagGt(v, 1, 100))

\* index of the first lexeme of items whose kind is in kinds, 0 if none
RECURSIVE FirstKind(_, _, _)
FirstKind(items, kinds, i) ==
    IF i > Len(items) THEN 0
    ELSE IF items[i].k \in kinds THEN i
    ELSE FirstKind(items, kinds, i + 1)

\* index of the last lexeme of items before j whose kind is in kinds
RECURSIVE LastKindBefore(_, _, _)
LastKindBefore(items, kinds, j) ==
    IF j <= 1 THEN 0
    ELSE IF items[j - 1].k \in kinds THEN j - 1
    ELSE LastKindBefore(items, kinds, j - 1)

Splice(items, i, j, l) ==
    SubSeq(items, 1, i - 1) \o <<l>> \o SubSeq(items, j + 1, Len(items))

\* applies the signs a group starts with to its first operand
RECURSIVE NegateFirst(_)
NegateFirst(items) ==
    IF items[1].k = "-"
    THEN LET rest == NegateFirst(Tail(items))
         IN  <<ValLex(F64Neg(NumVal(rest[1])))>> \o Tail(rest)
    ELSE items

RefBinary(k, a, b) ==
    IF k = "+" THEN F64Add(a, b)
    ELSE IF k = "-" THEN F64Sub(a, b)
    ELSE IF k = "x" THEN F64Mul(a, b)
    ELSE F64Div(a, b)

\* operands joined by binary operators: [dz |-> a division by zero was met,
\* big |-> some intermediate result exceeded the bound, v |-> the value]
RECURSIVE RefChain(_, _)
RefChain(items, big) ==
    LET p == FirstKind(items, {"x", "/"}, 1)
        q == IF p # 0 THEN p ELSE FirstKind(items, {"+", "-"}, 1)
    IN  IF q = 0 THEN [dz |-> FALSE, big |-> big, v |-> NumVal(items[1])]
        ELSE LET a == NumVal(items[q - 1])
                 b == NumVal(items[q + 1])
                 v == RefBinary(items[q].k, a, b)
             IN  IF items[q].k = "/" /\ IsZero(b)
                 THEN [dz |-> TRUE, big |-> big, v |-> NaN]
                 ELSE RefChain(Splice(items, q - 1, q + 1, ValLex(v)),
                               big \/ RefExceeds(v))

RECURSIVE RefEval(_, _)
RefEval(items, big) ==
    LET j == FirstKind(items, {")"}, 1)
        i == LastKindBefore(items, {"("}, j)
    IN  IF j = 0 THEN RefChain(NegateFirst(items), big)
        ELSE LET r == RefChain(NegateFirst(SubSeq(items, i + 1, j - 1)), big)
             IN  IF r.dz THEN r
                 ELSE RefEval(Splice(items, i, j, ValLex(r.v)), r.big)

\* what evaluate returns for an expression of reference result r
RefExpected(r) ==
    IF r.dz THEN Err("Division by zero", <<>>)
    ELSE IF RefExceeds(r.v) THEN ErrVal("Number out of range", r.v)
    ELSE Ok(r.v)

\* number literals joined by binary operators, nothing else
IsChain(items) ==
    /\ Len(items) % 2 = 1
    /\ \A i \in 1..Len(items) :
          IF i % 2 = 1 THEN items[i].k = "num"
          ELSE items[i].k \in {"+", "-", "x", "/"}

HasParens(items) == \E i \in 1..Len(items) : items[i].k = "("

\* a '-' at the start, after '(' or after another such '-'
HasUnary(items) ==
    \E i \in 1..Len(items) :
        items[i].k = "-" /\ (i = 1 \/ items[i - 1].k \in {"(", "-"})

Kinds(items) == [i \in 1..Len(items) |-> items[i].k]

------------------------------------------------------------------------------
(* Claims                                                                   *)

\* C1: for a parenthesis-free expression of number literals joined by
\* + - x /, evaluate returns the value obtained by applying x and / before
\* + and -, and operators of equal rank from left to right.
C1_PrecedenceLeftToRight ==
    (stage = "evaluate" /\ IsChain(src))
        => result = RefExpected(RefChain(src, FALSE))

\* a - b + c x d has been evaluated to a number
C1_Witness ==
    /\ stage = "evaluate"
    /\ Kinds(src) = <<"num", "-", "num", "+", "num", "x", "num">>
    /\ result.ok
    /\ result.val # Zero(1)

C3_DivisionByZero ==
    (stage = "evaluate" /\ RefEval(src, FALSE).dz)
        => result = Err("Division by zero", <<>>)

\* a / (b - c) with b - c = 0 and no literal 0 has been evaluated
C3_Witness ==
    /\ stage = "evaluate"
    /\ Kinds(src) = <<"num", "/", "(", "num", "-", "num", ")">>
    /\ \A i \in 1..Len(src) : src[i].k = "num" => src[i].m # 0
    /\ result.msg = "Division by zero"

C4_DoubleMinusIsPlus ==
    (stage = "evaluate" /\ Kinds(src) = <<"num", "-", "-", "num">>)
        => result = Ok(F64Add(NumVal(src[1]), NumVal(src[4])))

PlusMulDivChars == {"+", "x", "X", "*", "/", "÷"}

\* '+', a multiply or a divide character at the start, after '(' or after
\* a binary operator character, or '-' directly after one of them
MisplacedOperator(e) ==
    \/ \E i \in 1..Len(e) :
          /\ e[i] \in PlusMulDivChars
          /\ (i = 1 \/ e[i - 1] \in PlusMulDivChars \cup {"-", "("})
    \/ \E i \in 2..Len(e) : e[i] = "-" /\ e[i - 1] \in PlusMulDivChars

\* C5: evaluate returns an error for every input in which '+', a multiply
\* or a divide character stands at the start, directly after '(' or directly
\* after another binary operator, or in which '-' directly follows '+', a
\* multiply or a divide character.
C5_MisplacedOperatorRejected ==
    (stage = "evaluate" /\ MisplacedOperator(expr)) => ~result.ok

\* 2+-2 has been rejected as consecutive operators
C5_Witness ==
    /\ stage = "evaluate"
    /\ expr = <<"2", "+", "-", "2">>
    /\ result = Err("Consecutive operators", <<>>)

\* two operands with nothing but spaces between them: a literal or ')'
\* followed by a literal or '(' (two literals need a space to be two)
HasJuxtaposed(items) ==
    \E i \in 1..Len(items), j \in 1..Len(items) :
        /\ i < j
        /\ items[i].k \in {"num", ")"}
        /\ items[j].k \in {"num", "("}
        /\ \A h \in (i + 1)..(j - 1) : items[h].k = "sp"
        /\ ~(items[i].k = "num" /\ items[j].k = "num" /\ j = i + 1)

\* C7: evaluate returns an error for every input in which two operands
\* stand next to each other with no binary operator between them, whatever
\* comes before or after the pair.
C7_JuxtaposedRejected ==
    (stage = "evaluate" /\ HasJuxtaposed(src)) => ~result.ok

\* no ')' without an open '(' before it and no '(' left open
RECURSIVE BalancedFrom(_, _, _)
BalancedFrom(items, i, depth) ==
    IF i > Len(items) THEN depth = 0
    ELSE IF items[i].k = "(" THEN BalancedFrom(items, i + 1, depth + 1)
    ELSE IF items[i].k = ")"
    THEN depth > 0 /\ BalancedFrom(items, i + 1, depth - 1)
    ELSE BalancedFrom(items, i + 1, depth)

Balanced(items) == BalancedFrom(items, 1, 0)

\* C8: whenever tokenization succeeds and the parentheses of the input are
\* not balanced, evaluate returns the error Mismatched parentheses.
C8_MismatchedParentheses ==
    (stage = "evaluate" /\ ~Balanced(src) /\ tokenize(Trim(expr)).ok)
        => result = Err("Mismatched parentheses", <<>>)

\* (2+3 has been rejected
C8_Witness ==
    /\ stage = "evaluate"
    /\ expr = <<"(", "2", "+", "3">>
    /\ result.msg = "Mismatched parentheses"

\* a literal, or '-' and a literal
IsSignedLiteral(items) ==
    \/ Len(items) = 1 /\ items[1].k = "num"
    \/ Len(items) = 2 /\ items[1].k = "-" /\ items[2].k = "num"

\* what parsing the signed literal items as a number returns
RefParsed(items) ==
    LET l == items[Len(items)]
        v == IF Len(items) = 2 THEN F64Neg(NumVal(l)) ELSE NumVal(l)
    IN  IF LitExceeds(l) THEN Err("Number out of range", TextOf(items))
        ELSE Ok(v)

\* C9: safe_parse_number (and evaluate on a single literal) fails with
\* NumberOutOfRange exactly when the value is not finite or its magnitude is
\* above 1e100; a literal of magnitude <= 1e100 is accepted with its value.
C9_LiteralBound ==
    /\ (stage = "safe_parse_number" /\ IsSignedLiteral(src))
          => result = RefParsed(src)
    /\ (stage = "safe_parse_number" /\ result.msg = "Number out of range")
          => (IsSignedLiteral(src) /\ LitExceeds(src[Len(src)]))
    /\ (stage = "evaluate" /\ Len(src) = 1) => result = RefParsed(src)

\* the literal 1e100 has been parsed and accepted
C9_Witness ==
    /\ stage = "safe_parse_number"
    /\ expr = <<"1", "e", "1", "0", "0">>
    /\ result = Ok(Fin(1, 1, 1, 100))

HasBigLiteral(items) == \E i \in 1..Len(items) : LitExceeds(items[i])

------------------------------------------------------------------------------
(* C11, C12: validate_input                                                 *)

\* C11: validate_input fails with "Input too long" exactly when the input
\* has more than 1000 characters, whichever allowed characters it contains.
C11_TooLongIffOver1000Chars ==
    stage = "validate_input"
        => ((result = Err("Input too long", <<>>))
                <=> (Len(expr) > MAX_INPUT_LENGTH))

\* the disallowed characters of s: the j-th one is the character at the
\* j-th smallest index that holds a disallowed character
Disallowed(s) ==
    LET bad == {i \in 1..Len(s) : s[i] \notin AllowedChars}
    IN  [j \in 1..Cardinality(bad) |->
            s[CHOOSE i \in bad : Cardinality({k \in bad : k < i}) = j - 1]]

------------------------------------------------------------------------------
(* C13 .. C19: the input state machine                                      *)

\* the plain decimal text of an integer
IntText(i) == IF i < 0 THEN <<"-">> \o IntToDigits(-i) ELSE IntToDigits(i)

\* a op b on integers
IntResult(a, operation, b) ==
    CASE operation = "Add" -> a + b
      [] operation = "Subtract" -> a - b
      [] operation = "Multiply" -> a * b

\* the scenario Digit(a), Operator(op), Digit(b), Equals has been processed
DigitOpDigitEquals ==
    /\ stage = "keys"
    /\ keys = <<>>
    /\ Len(src) = 4
    /\ src[2].operation \in {"Add", "Subtract", "Multiply"}

\* C13: from the initial state, Digit(a), Operator(op), Digit(b), Equals
\* with op one of Add, Subtract, Multiply ends with expression and display
\* equal to the plain decimal text of a op b and new_input = true.
C13_DigitOpDigitEqualsResult ==
    DigitOpDigitEquals
        => LET t == IntText(IntResult(src[1].digit, src[2].operation,
                                      src[3].digit))
           IN  expression = t /\ display = t /\ new_input = TRUE

\* 5, +, 3, = ends with "8"
C13_Witness ==
    /\ DigitOpDigitEquals
    /\ src[1].digit = 5 /\ src[2].operation = "Add" /\ src[3].digit = 3
    /\ expression = <<"8">> /\ display = <<"8">> /\ new_input = TRUE
    /\ last.message.t = "EqualsPressed"

\* C14: after any sequence of UI events the expression is a non-empty
\* string.
C14_ExpressionNonEmpty == stage \in {"ui", "keys"} => expression # <<>>

\* C15: from every reachable state, processing any further UI message
\* completes normally: no handler panics.
C15_NoPanic == ~last.panic

\* C16: when Equals is pressed and evaluate fails on the current
\* expression, the error text becomes the display, the expression is reset
\* to "0" and new_input is left unchanged.
C16_EqualsError ==
    [][(last'.message.t = "EqualsPressed" /\ ~evaluate(expression).ok)
        => /\ display' = ErrorText(evaluate(expression))
           /\ expression' = <<"0">>
           /\ new_input' = new_input]_vars

\* 5, ÷, 0, = shows "Division by zero" over the expression "0", new_input
\* still false
C16_Witness ==
    /\ last.message.t = "EqualsPressed"
    /\ display = Chars("Division by zero")
    /\ expression = <<"0">>
    /\ new_input = FALSE

\* C17: Clear yields expression = "0", display = "0", new_input = false,
\* from every state.
C17_ClearResets ==
    (last.message.t = "ClearPressed" /\ ~last.panic)
        => expression = <<"0">> /\ display = <<"0">> /\ new_input = FALSE

\* Clear after 5, ÷, 0, = has shown "Division by zero"
C17_Witness ==
    /\ stage = "keys"
    /\ Len(src) = 5
    /\ keys = <<>>
    /\ last.message.t = "ClearPressed"
    /\ expression = <<"0">> /\ display = <<"0">> /\ new_input = FALSE

\* C18: in a non-error state (the display is not "Error") whose expression
\* has more than one character, Backspace removes exactly the last
\* character of the expression and leaves the prefix as it was.
C18_BackspaceRemovesLast ==
    [][(/\ last'.message.t = "BackspacePressed"
        /\ display # Chars("Error")
        /\ Len(expression) > 1)
        => expression' = Front(expression)]_vars

\* "123+45" after two Backspaces is "123+"
C18_Witness ==
    /\ stage = "keys"
    /\ Len(src) = 9
    /\ Len(keys) = 1
    /\ last.message.t = "BackspacePressed"
    /\ expression = <<"1", "2", "3", "+">>

\* C19: process_message returns ScrollToEnd exactly when the expression has
\* more characters after the event than before it, NoScroll otherwise.
C19_ScrollIffMoreChars ==
    [][~last'.panic
        => last'.hint = IF Len(expression') > Len(expression)
                        THEN "ScrollToEnd" ELSE "NoScroll"]_vars

------------------------------------------------------------------------------
(* C20: the parentheses of display_string                                   *)

IsOperator(l) == l.k \in {"+", "-", "x", "/"}

\* operands, each a number or a minus sign and a number, joined by
\* operators: items from i on, an operand expected or an operator
RECURSIVE OperandsFrom(_, _, _)
OperandsFrom(items, i, operand) ==
    IF i > Len(items) THEN ~operand
    ELSE IF ~operand THEN IsOperator(items[i]) /\ OperandsFrom(items, i + 1, TRUE)
    ELSE IF items[i].k = "num" THEN OperandsFrom(items, i + 1, FALSE)
    ELSE /\ items[i].k = "-"
         /\ i < Len(items)
         /\ items[i + 1].k = "num"
         /\ OperandsFrom(items, i + 2, FALSE)

\* a negative operand directly follows an operator
HasNegativeOperand(items) ==
    \E i \in 1..(Len(items) - 2) :
        IsOperator(items[i]) /\ items[i + 1].k = "-" /\ items[i + 2].k = "num"

\* the text with each negative operand that follows an operator in its own
\* parentheses, and nothing else changed
RECURSIVE OwnParentheses(_, _)
OwnParentheses(items, i) ==
    IF i > Len(items) THEN <<>>
    ELSE IF /\ i + 2 <= Len(items)
            /\ IsOperator(items[i])
            /\ items[i + 1].k = "-"
            /\ items[i + 2].k = "num"
    THEN items[i].t \o <<"(", "-">> \o items[i + 2].t \o <<")">>
         \o OwnParentheses(items, i + 3)
    ELSE items[i].t \o OwnParentheses(items, i + 1)

\* C20: display_string renders "A op -N rest" as "A op (-N) rest": each
\* negative operand that directly follows a binary operator gets its own
\* parentheses, whatever follows it, a leading negative number gets none,
\* and nothing else changes.
C20_OwnParentheses ==
    (/\ stage = "display_string"
     /\ OperandsFrom(src, 1, TRUE)
     /\ HasNegativeOperand(src))
        => display = OwnParentheses(src, 1)

------------------------------------------------------------------------------
(* C21: the scientific notation of display_string                           *)

\* numbers joined by operators
NumbersAndOperators(items) ==
    /\ Len(items) % 2 = 1
    /\ \A i \in 1..Len(items) :
           IF i % 2 = 1 THEN items[i].k = "num" ELSE IsOperator(items[i])

\* the magnitude of the number l is >= 1e9, or > 0 and < 1, or its plain
\* integer text is longer than 10 characters
ToRewrite(l) ==
    \/ l.m > 0 /\ (NumDigits(l.m) + l.e >= 10 \/ NumDigits(l.m) + l.e <= 0)
    \/ Len(l.t) > 10 /\ \A i \in 1..Len(l.t) : l.t[i] \notin {".", "e"}

\* the numbers to rewrite in one-decimal scientific notation, everything
\* else character for character
Rewritten(items) ==
    Flatten([i \in 1..Len(items) |->
                IF items[i].k = "num" /\ ToRewrite(items[i])
                THEN FormatExp(NumVal(items[i]), 1)
                ELSE items[i].t])

\* C21: display_string rewrites a number of the expression in one-decimal
\* scientific notation exactly when its magnitude is >= 1e9, or > 0 and
\* < 1, or its plain integer text is longer than 10 characters; every other
\* number and every operator is returned character for character, and
\* formatting the result again changes nothing.
C21_ScientificExactlyWhen ==
    (stage = "display_string" /\ NumbersAndOperators(src))
        => /\ display = Rewritten(src)
           /\ display_string(display) = display

------------------------------------------------------------------------------
(* C22 .. C26: the events after a failed Equals                             *)

\* the state left by a failed Equals: a successful one leaves the text of a
\* number in the display, a failed one the text of the error
FailedEquals ==
    /\ last.message.t = "EqualsPressed"
    /\ ~last.panic
    /\ ParseF64(display).k = "none"

\* C22: in the state left by a failed Equals, an Operator event and an
\* Equals event are no-ops: expression, display and new_input are unchanged.
C22_OperatorEqualsNoOp ==
    [][(FailedEquals /\ last'.message.t \in {"OperationPressed", "EqualsPressed"})
        => UNCHANGED <<expression, display, new_input>>]_vars

\* C23: in the state left by a failed Equals, whatever the error, Digit(d)
\* leaves expression = display = d and new_input = false.
C23_DigitResetsError ==
    [][(FailedEquals /\ last'.message.t = "NumberPressed")
        => /\ expression' = IntToDigits(last'.message.digit)
           /\ display' = IntToDigits(last'.message.digit)
           /\ new_input' = FALSE]_vars

\* C24: in the state left by a failed Equals, Decimal leaves
\* expression = display = "0." and new_input = false.
C24_DecimalResetsError ==
    [][(FailedEquals /\ last'.message.t = "DecimalPressed")
        => /\ expression' = <<"0", ".">>
           /\ display' = <<"0", ".">>
           /\ new_input' = FALSE]_vars

\* C25: in the state left by a failed Equals, Backspace leaves
\* expression = display = "0" and new_input = false.
C25_BackspaceResetsError ==
    [][(FailedEquals /\ last'.message.t = "BackspacePressed")
        => /\ expression' = <<"0">>
           /\ display' = <<"0">>
           /\ new_input' = FALSE]_vars

\* C26: in the state left by a failed Equals, Percent and SignToggle are
\* no-ops: expression, display and new_input are unchanged and the handler
\* does not panic.
C26_PercentSignToggleNoOp ==
    [][(FailedEquals
        /\ last'.message.t \in {"PercentagePressed", "SignTogglePressed"})
        => /\ UNCHANGED <<expression, display, new_input>>
           /\ ~last'.panic]_vars

\* Percent or SignToggle has been processed after 5, ÷, 0, = and the display
\* still shows "Division by zero"
C26_Witness ==
    /\ last.message.t \in {"PercentagePressed", "SignTogglePressed"}
    /\ ~last.panic
    /\ display = Chars("Division by zero")
    /\ expression = <<"0">>

------------------------------------------------------------------------------
(* C27: operators are replaced, never chained                               *)

\* C27: an Operator event on an expression that ends with an operator
\* replaces that operator, and the expression never contains two adjacent
\* characters from {+, -, x, ÷}.
C27_OperatorReplaces ==
    /\ [](\A i \in 1..(Len(expression) - 1) :
            ~(expression[i] \in OpChars /\ expression[i + 1] \in OpChars))
    /\ [][(/\ last'.message.t = "OperationPressed"
           /\ expression # <<>>
           /\ Last(expression) \in OpChars)
          => expression' = Append(Front(expression),
                                  OpChar(last'.message.operation))]_vars

\* 7, +, - has been keyed in: the '-' has replaced the '+'
C27_Witness ==
    /\ stage = "keys"
    /\ Len(src) = 5
    /\ src[2] = Operator("Add")
    /\ Len(keys) = 2
    /\ last.message = Operator("Subtract")
    /\ expression = <<"7", "-">>

------------------------------------------------------------------------------
(* C28: one decimal point per operand                                       *)

\* C28: no numeric operand of the expression (a run of digits and points)
\* contains more than one decimal point.
C28_OneDecimalPoint ==
    \A i \in 1..Len(expression) : \A j \in (i + 1)..Len(expression) :
        (expression[i] = "." /\ expression[j] = ".")
            => \E k \in (i + 1)..(j - 1) : expression[k] \notin Digits

------------------------------------------------------------------------------
(* C29, C30: new_input                                                      *)

\* the state left by a successful Equals: the display is the text of a number
SuccessfulEquals ==
    /\ last.message.t = "EqualsPressed"
    /\ ~last.panic
    /\ ParseF64(display).k # "none"

\* C29: in the state left by a successful Equals, whatever the result,
\* Digit(d) leaves expression = display = d and new_input = false.
C29_DigitAfterResult ==
    [][(SuccessfulEquals /\ last'.message.t = "NumberPressed")
        => /\ expression' = IntToDigits(last'.message.digit)
           /\ display' = IntToDigits(last'.message.digit)
           /\ new_input' = FALSE]_vars

\* in a scenario, the last two messages processed were a digit and then a
\* Backspace that removed it and left an operand
BackspacedDigit ==
    /\ stage = "keys"
    /\ Len(src) - Len(keys) >= 2
    /\ src[Len(src) - Len(keys)].t = "BackspacePressed"
    /\ src[Len(src) - Len(keys) - 1].t = "NumberPressed"
    /\ expression # <<"0">>
    /\ Last(expression) \in Digits

\* C30: new_input goes from false to true only on an Operator event or a
\* successful Equals, and a Digit after a Backspace that removed a digit
\* extends the operand that remains.
C30_NewInputSetters ==
    [][/\ (~new_input /\ new_input')
            => \/ last'.message.t = "OperationPressed"
               \/ SuccessfulEquals'
       /\ (BackspacedDigit /\ last'.message.t = "NumberPressed")
            => expression' = expression \o IntToDigits(last'.message.digit)]_vars

------------------------------------------------------------------------------
(* C31: SignToggle on the operand after the last operator                   *)

\* C31: when the expression is P op N, op the last top-level separating
\* operator and N a positive number literal, SignToggle gives P op (-N);
\* when the operand is (-N) it gives P op N; a zero operand becomes "0".
C31_SignToggleOperand ==
    [][LET pos     == find_last_operator_position(expression)
           P_op    == SubSeq(expression, 1, pos)
           operand == SubSeq(expression, pos + 1, Len(expression))
           inner   == SubSeq(operand, 3, Len(operand) - 1)
           Literal(t) == /\ \A i \in 1..Len(t) : t[i] \in Digits \cup {"."}
                         /\ ParseF64(t).k # "none"
       IN  (last'.message.t = "SignTogglePressed" /\ pos > 1)
           => /\ Literal(operand)
                 => /\ ~last'.panic
                    /\ expression' =
                         P_op \o (IF IsPositive(ParseF64(operand))
                                  THEN <<"(", "-">>
                                       \o to_string(ParseF64(operand))
                                       \o <<")">>
                                  ELSE <<"0">>)
              /\ (/\ StartsWith(operand, <<"(", "-">>)
                  /\ EndsWith(operand, <<")">>)
                  /\ Literal(inner)
                  /\ IsPositive(ParseF64(inner)))
                 => /\ ~last'.panic
                    /\ expression' = P_op \o to_string(ParseF64(inner))]_vars

------------------------------------------------------------------------------
(* C32: Percent on the operand after the last operator                      *)

\* C32: when the expression is P op N, op the last separating operator and
\* N a number, Percent gives P op (N/100); when the expression has no
\* operator and is a number N, the whole expression becomes N/100.
C32_PercentOperand ==
    [][LET pos     == find_last_operator_position(expression)
           P_op    == SubSeq(expression, 1, pos)
           operand == SubSeq(expression, pos + 1, Len(expression))
       IN  (/\ last'.message.t = "PercentagePressed"
            /\ ~FailedEquals
            /\ ParseF64(operand).k # "none")
           => expression' =
                P_op \o to_string(F64Div(ParseF64(operand),
                                         Fin(1, 1, 1, 2)))]_vars

------------------------------------------------------------------------------
(* C33 .. C35: the display and the expression                               *)

C35_DisplayDerived ==
    (/\ ~last.panic
     /\ \A i \in 1..Len(display) :
            display[i] \in Digits \cup OpChars \cup {".", "(", ")", "e"})
        => display = display_string(expression)

------------------------------------------------------------------------------
(* C36: the characters of the validator and of the tokenizer                *)

\* C36: for every input that passes validate_input, tokenize never fails
\* with an "Invalid character" error.
C36_NoInvalidCharacter ==
    (stage = "evaluate" /\ validate_input(expr).ok)
        => ~(~result.ok /\ result.msg = "Invalid character")

------------------------------------------------------------------------------
(* C37: a decimal point in each operand                                     *)

\* C37: when the operand being entered after an operator has no '.',
\* Decimal appends '.' to the expression, even if an earlier operand
\* contains one.
C37_DecimalPerOperand ==
    [][LET pos     == find_last_operator_position(expression)
           operand == SubSeq(expression, pos + 1, Len(expression))
       IN  (/\ last'.message.t = "DecimalPressed"
            /\ ~new_input
            /\ pos > 1
            /\ operand # <<>>
            /\ \A i \in 1..Len(operand) : operand[i] \in Digits)
           => expression' = Append(expression, ".")]_vars

------------------------------------------------------------------------------
(* C38: Equals after Equals                                                 *)

\* C38: in the state left by a successful Equals, a second Equals leaves
\* expression, display and new_input unchanged.
C38_EqualsIdempotent ==
    [][(SuccessfulEquals /\ last'.message.t = "EqualsPressed")
        => UNCHANGED <<expression, display, new_input>>]_vars

\* 1, ÷, 3, =, = has been keyed in: the display is still "0.33333333"
C38_Witness ==
    /\ stage = "keys"
    /\ Len(src) = 5
    /\ keys = <<>>
    /\ src[1] = Digit(1)
    /\ src[2] = Operator("Divide")
    /\ last.message.t = "EqualsPressed"
    /\ display = <<"0", ".", "3", "3", "3", "3", "3", "3", "3", "3">>
    /\ new_input

------------------------------------------------------------------------------
(* C39: SignToggle on a bare number                                         *)

\* C39: in every state whose expression is a bare number, the value of the
\* expression after SignToggle is the exact negation of its value before.
C39_SignToggleNegates ==
    [][(/\ last'.message.t = "SignTogglePressed"
        /\ find_last_operator_position(expression) = 0
        /\ ParseF64(expression).k # "none")
       => /\ ~last'.panic
          /\ IF IsZero(ParseF64(expression))
             THEN IsZero(ParseF64(expression'))
             ELSE ParseF64(expression') = F64Neg(ParseF64(expression))]_vars

====
